---- MODULE Spec2Model ----
(***************************************************************************)
(* MagikEvents PhotoBooth: the frame store accessor (DataManager), the     *)
(* frame loader and the composer (ImageProcessor).                         *)
(*                                                                         *)
(* The remote database is modelled at its contract: get returns the whole  *)
(* collection, a multi-path update is applied atomically, push generates   *)
(* its key in the client when it is called and the record (with the        *)
(* server timestamp) is written when the request reaches the server.       *)
(***************************************************************************)
EXTENDS Integers, Sequences, FiniteSets, TLC

(* ---------------- bounds ---------------- *)
MaxPublishes == 3            \* saveFrameImage calls in one run
MaxSaves == 2                \* DataManager.saveImage calls in one run
MaxStreams == 4              \* getUserMedia requests of one run, the one of initialize included

(* ---------------- values ---------------- *)
Clients == {"c1", "c2"}      \* upload pages publishing frames
Null == 0                    \* JavaScript null / absent; data URLs are 1, 2, ...
NoStream == 0                \* cameraManager.stream is null
NoKey == 0                   \* no record chosen yet
NoData == << >>              \* snapshot.exists() = false
Loads == {"page", "focus", "visible", "compose"}   \* loadTargetImage calls, by their caller
FinalWidth == 1200           \* HIGH_QUALITY_SETTINGS.finalWidth
FinalHeight == 1800          \* HIGH_QUALITY_SETTINGS.finalHeight
PhotoSizes == {<<1920, 1080>>, <<1200, 1800>>}   \* decoded captures and uploads
ZoomValues == {100, 150}     \* zoom slider inputs
PanValues == {0, 50}         \* x and y slider inputs
ComposeSizes == {<<1920, 1080>>, <<1080, 1920>>, <<1200, 1800>>, <<600, 900>>,
                 <<4032, 3024>>, <<1000, 1000>>, <<7, 3>>}   \* photographs composed
ComposeZooms == {50, 100, 101, 150, 200}    \* zoom settings composed
ComposePans == {-100, -50, 0, 1, 100}       \* x and y settings composed
VideoSizes == {<<0, 0>>, <<1920, 1080>>}      \* videoWidth, videoHeight when capture is pressed
NoImage == [kind |-> "none", src |-> Null, width |-> 0, height |-> 0]
NoOutput == [kind |-> "none"]
BlankCanvas == [kind |-> "blank", width |-> 300, height |-> 150]   \* a canvas element never drawn on

VARIABLES
    frames,      \* frame-images: key -> [imageData, uploadedAt, active]
    now,         \* server clock (serverTimestamp)
    nextKey,     \* next push key (keys sort in the order push() was called)
    started,     \* saveFrameImage calls so far; call n uploads data URL n
    pc,          \* per client: position in saveFrameImage
    snap,        \* per client: snapshot.val() read at line 217
    newKey,      \* per client: key generated by push at line 230
    raster,      \* per client: imageDataUrl being published
    dirty,       \* per client: another writer's write landed since this publish read
    prevDone,    \* per client: key of the last completed publish when this one started
    lastDone,    \* key of the most recently completed publish
    overlapped,  \* some publish has started while another was in progress
    sub,         \* last delivery to getActiveFramePreview and the calls of its callback
    rd,          \* last loadActiveFrameImage call: snapshot fetched and value returned
    lpc,         \* per loadTargetImage call: position
    limg,        \* per loadTargetImage call: frameDataUrl being decoded
    lres,        \* per loadTargetImage call: which branch it took
    newest,      \* the most recently started loadTargetImage call and what it assigned
    targetImage, backgroundImage, zoomLevel, xPosition, yPosition,  \* ImageProcessor fields
    ppc,         \* position in ImageProcessor.processImages
    targetReady, backgroundReady,   \* locals of processImages (lines 432-433)
    perr,        \* error thrown by processImages
    out,         \* what processImages drew and returned
    currentStep, \* AppController.currentStep
    entered,     \* goToStep has made a step's section the active one
    canvas,      \* the compositeCanvas element: its size and what was drawn on it
    ipc,         \* position in AppController.initialize
    isInitialized,   \* the isInitialized field of each service and of the controller
    loader,      \* the text of the initialization loader, or "hidden"
    cpc,         \* position in capturePhoto
    cimg,        \* capturePhoto: size of the capture canvas being encoded
    cerr,        \* capturePhoto: message alerted by the last call that failed
    fpc,         \* position in handleFileSelect / loadImageFromFile
    fsel,        \* handleFileSelect: the files of the last selection or drop
    ffile,       \* handleFileSelect: the file being read and decoded
    falert,      \* handleFileSelect: message alerted by the last call
    images,      \* magik-events-images: key -> saved image record
    ikey,        \* next push key of magik-events-images
    saves,       \* DataManager.saveImage calls so far
    spc,         \* position in DataManager.saveImage
    srec,        \* saveImage: key generated by push and record being written
    sres,        \* saveImage: what the last call returned (a key) or "error"
    gal,         \* last delivery to the loadImages callback: snapshot and list
    dpc,         \* position in DataManager.deleteImage
    did,         \* deleteImage: imageId of the call
    dres,        \* deleteImage: how the last call ended
    dhit,        \* deleteImage: the record was there when the last removal was applied
    stream,      \* cameraManager.stream: the stream assigned last, or NoStream
    live,        \* the streams handed out by getUserMedia whose tracks are not stopped
    requests,    \* getUserMedia requests not yet settled
    nreq,        \* getUserMedia requests made so far; request n is granted stream n
    currentCameraIndex,
    hidden,      \* document.hidden
    starting     \* AppController.startCamera is running, the start button is disabled

storeVars == <<frames, now, nextKey, started>>
pubVars == <<pc, snap, newKey, raster, dirty, prevDone, lastDone, overlapped>>
obsVars == <<sub, rd>>
loadVars == <<lpc, limg, lres, newest>>
compVars == <<targetImage, backgroundImage, zoomLevel, xPosition, yPosition>>
procVars == <<ppc, targetReady, backgroundReady, perr, out>>
pageVars == <<loadVars, compVars, procVars>>

initVars == <<ipc, isInitialized, loader>>
appVars == <<currentStep, entered, canvas, initVars>>
fileVars == <<fpc, fsel, ffile, falert>>
captureVars == <<cpc, cimg, cerr, fileVars>>
saveVars == <<images, ikey, saves, spc, srec, sres>>
galleryVars == <<gal, dpc, did, dres, dhit>>
cameraVars == <<stream, live, requests, nreq, currentCameraIndex, hidden, starting>>
sideVars == <<saveVars, galleryVars, cameraVars>>
extVars == <<appVars, captureVars, sideVars>>

vars == <<storeVars, pubVars, obsVars, pageVars, extVars>>

(* ---------------- helpers ---------------- *)
MinKey(S) == CHOOSE k \in S : \A j \in S : k <= j

Keys(data) == DOMAIN data

ActiveKeys(data) == {k \in Keys(data) : data[k].active}

MaxUploadedAt(data) == CHOOSE t \in {data[k].uploadedAt : k \in Keys(data)} :
                          \A k \in Keys(data) : data[k].uploadedAt <= t

NewestKeys(data) == {k \in Keys(data) : data[k].uploadedAt = MaxUploadedAt(data)}

(* ---------------- DataManager.loadActiveFrameImage ---------------- *)
\* faulty variant: tests the flag the wrong way round
RECURSIVE LoadFindActiveInverted(_, _, _)
LoadFindActiveInverted(data, keys, activeFrameKey) ==
    IF keys = {} THEN activeFrameKey
    ELSE LET key == MinKey(keys)
         IN LoadFindActiveInverted(data, keys \ {key},
                                   IF data[key].active = FALSE THEN key ELSE activeFrameKey)

\* lines 263-268: forEach over the keys, the last record with active === true wins
RECURSIVE LoadFindActive(_, _, _)
LoadFindActive(data, keys, activeFrameKey) ==
    IF keys = {} THEN activeFrameKey
    ELSE LET key == MinKey(keys)
         IN LoadFindActive(data, keys \ {key},
                           IF data[key].active = TRUE THEN key ELSE activeFrameKey)

\* faulty variant: the comparison is reversed, no record ever replaces the initial candidate
RECURSIVE LoadMostRecentReversed(_, _, _, _)
LoadMostRecentReversed(data, keys, mostRecentKey, mostRecentTime) ==
    IF keys = {} THEN mostRecentKey
    ELSE LET key == MinKey(keys)
             uploadTime == data[key].uploadedAt
         IN IF uploadTime < mostRecentTime
            THEN LoadMostRecentReversed(data, keys \ {key}, key, uploadTime)
            ELSE LoadMostRecentReversed(data, keys \ {key}, mostRecentKey, mostRecentTime)

\* faulty variant: the first record is kept, upload times are not compared
RECURSIVE LoadMostRecentFirst(_, _, _, _)
LoadMostRecentFirst(data, keys, mostRecentKey, mostRecentTime) ==
    IF keys = {} THEN mostRecentKey
    ELSE LET key == MinKey(keys)
         IN IF mostRecentKey = NoKey
            THEN LoadMostRecentFirst(data, keys \ {key}, key, data[key].uploadedAt)
            ELSE LoadMostRecentFirst(data, keys \ {key}, mostRecentKey, mostRecentTime)

\* lines 272-283: strictly greater uploadedAt replaces the candidate, starting from time 0
RECURSIVE LoadMostRecent(_, _, _, _)
LoadMostRecent(data, keys, mostRecentKey, mostRecentTime) ==
    IF keys = {} THEN mostRecentKey
    ELSE LET key == MinKey(keys)
             uploadTime == data[key].uploadedAt
         IN IF uploadTime > mostRecentTime
            THEN LoadMostRecent(data, keys \ {key}, key, uploadTime)
            ELSE LoadMostRecent(data, keys \ {key}, mostRecentKey, mostRecentTime)

\* lines 256-296, for a snapshot that was fetched
LoadActiveFrameImage(data) ==
    IF data = NoData THEN Null
    ELSE LET found == LoadFindActive(data, Keys(data), NoKey)
             activeFrameKey == IF found = NoKey
                               THEN LoadMostRecent(data, Keys(data), NoKey, 0)
                               ELSE found
         IN IF activeFrameKey # NoKey THEN data[activeFrameKey].imageData ELSE Null

(* ---------------- DataManager.getActiveFramePreview ---------------- *)
\* faulty variant: the first active record wins instead of the last
RECURSIVE PreviewFindActiveFirst(_, _, _)
PreviewFindActiveFirst(data, keys, activeFrame) ==
    IF keys = {} THEN activeFrame
    ELSE LET key == MinKey(keys)
         IN PreviewFindActiveFirst(data, keys \ {key},
                                   IF data[key].active = TRUE /\ activeFrame = NoKey
                                   THEN key ELSE activeFrame)

\* lines 327-331: forEach over the keys, the last record with active === true wins
RECURSIVE PreviewFindActive(_, _, _)
PreviewFindActive(data, keys, activeFrame) ==
    IF keys = {} THEN activeFrame
    ELSE LET key == MinKey(keys)
         IN PreviewFindActive(data, keys \ {key},
                              IF data[key].active = TRUE THEN key ELSE activeFrame)

\* lines 335-346: strictly greater uploadedAt replaces the candidate, starting from time 0
RECURSIVE PreviewMostRecent(_, _, _, _)
PreviewMostRecent(data, keys, mostRecent, mostRecentTime) ==
    IF keys = {} THEN mostRecent
    ELSE LET key == MinKey(keys)
             uploadTime == data[key].uploadedAt
         IN IF uploadTime > mostRecentTime
            THEN PreviewMostRecent(data, keys \ {key}, key, uploadTime)
            ELSE PreviewMostRecent(data, keys \ {key}, mostRecent, mostRecentTime)

\* lines 320-352: the value passed to the callback for a delivered snapshot
PreviewCallbackValue(data) ==
    IF data # NoData
    THEN LET found == PreviewFindActive(data, Keys(data), NoKey)
             activeFrame == IF found = NoKey
                            THEN PreviewMostRecent(data, Keys(data), NoKey, 0)
                            ELSE found
         IN IF activeFrame # NoKey THEN data[activeFrame].imageData ELSE Null
    ELSE Null

(* ---------------- DataManager.saveFrameImage ---------------- *)
InPublish(c) == pc[c] \in {"update", "push", "pushing"}

\* another writer's write lands after these clients read and before they return
Disturb(c) == [d \in Clients |-> IF d # c /\ pc[d] # "idle" THEN TRUE ELSE dirty[d]]

\* line 217: get(allFramesRef) succeeds; line 219 picks the branch
SaveFrameGet(c) ==
    /\ pc[c] = "idle"
    /\ started < MaxPublishes
    /\ started' = started + 1
    /\ raster' = [raster EXCEPT ![c] = started + 1]
    /\ snap' = [snap EXCEPT ![c] = frames]
    /\ pc' = [pc EXCEPT ![c] = IF frames # NoData THEN "update" ELSE "push"]
    /\ dirty' = [dirty EXCEPT ![c] = FALSE]
    /\ prevDone' = [prevDone EXCEPT ![c] = lastDone]
    /\ overlapped' = (overlapped \/ \E d \in Clients \ {c} : InPublish(d))
    /\ UNCHANGED <<frames, now, nextKey, newKey, lastDone, obsVars, pageVars, extVars>>

\* faulty variant: the update misses the last key of the snapshot
DeactivateAllButLast(data, keys) ==
    [k \in Keys(data) |-> IF k \in keys /\ \E j \in keys : j > k
                          THEN [data[k] EXCEPT !.active = FALSE] ELSE data[k]]

\* faulty variant: the update is built but never applied
DeactivateNothing(data, keys) == data

\* lines 222-226: one multi-path update sets active=false on every key of the snapshot
Deactivate(data, keys) ==
    [k \in Keys(data) |-> IF k \in keys THEN [data[k] EXCEPT !.active = FALSE] ELSE data[k]]

SaveFrameUpdate(c) ==
    /\ pc[c] = "update"
    /\ frames' = Deactivate(frames, Keys(snap[c]))
    /\ pc' = [pc EXCEPT ![c] = "push"]
    /\ dirty' = Disturb(c)
    /\ UNCHANGED <<now, nextKey, started, snap, newKey, raster, prevDone, lastDone,
                   overlapped, obsVars, pageVars, extVars>>

\* line 230: push() generates the key in the client and sends the write
SaveFramePush(c) ==
    /\ pc[c] = "push"
    /\ newKey' = [newKey EXCEPT ![c] = nextKey]
    /\ nextKey' = nextKey + 1
    /\ pc' = [pc EXCEPT ![c] = "pushing"]
    /\ UNCHANGED <<frames, now, started, snap, raster, dirty, prevDone, lastDone,
                   overlapped, obsVars, pageVars, extVars>>

\* lines 204-209: the record written; uploadedAt is resolved by the server
FrameData(imageDataUrl, timestamp) ==
    [imageData |-> imageDataUrl, uploadedAt |-> timestamp, active |-> TRUE]

\* line 230: the write reaches the server, the promise resolves with result.key
SaveFramePushed(c) ==
    /\ pc[c] = "pushing"
    /\ \E t \in {now, now + 1} :
          /\ now' = t
          /\ frames' = (newKey[c] :> FrameData(raster[c], t)) @@ frames
    /\ pc' = [pc EXCEPT ![c] = "done"]
    /\ dirty' = Disturb(c)
    /\ lastDone' = newKey[c]
    /\ UNCHANGED <<nextKey, started, snap, newKey, raster, prevDone, overlapped,
                   obsVars, pageVars, extVars>>

\* lines 235-238: update or push rejects; the error is rethrown, nothing more is written
SaveFrameFail(c) ==
    /\ pc[c] \in {"update", "push", "pushing"}
    /\ pc' = [pc EXCEPT ![c] = "failed"]
    /\ UNCHANGED <<storeVars, snap, newKey, raster, dirty, prevDone, lastDone,
                   overlapped, obsVars, pageVars, extVars>>

\* the caller (UploadController.uploadFrame) returns; the page can publish again
SaveFrameReturn(c) ==
    /\ pc[c] \in {"done", "failed"}
    /\ pc' = [pc EXCEPT ![c] = "idle"]
    /\ snap' = [snap EXCEPT ![c] = NoData]
    /\ newKey' = [newKey EXCEPT ![c] = NoKey]
    /\ raster' = [raster EXCEPT ![c] = Null]
    /\ dirty' = [dirty EXCEPT ![c] = FALSE]
    /\ prevDone' = [prevDone EXCEPT ![c] = NoKey]
    /\ UNCHANGED <<storeVars, lastDone, overlapped, obsVars, pageVars, extVars>>

(* ---------------- live subscription and reads ---------------- *)
\* lines 321-352: the values the callback is called with while one snapshot is
\* handled: both branches call it once
PreviewSnapshotCalls(data) == <<PreviewCallbackValue(data)>>

\* faulty variant: the error is logged and the callback left alone
PreviewErrorLogged == << >>

\* lines 353-356: the values the callback is called with while one error is handled
PreviewErrorCalls == <<Null>>

\* getActiveFramePreview lines 320-352: onValue delivers the current collection
PreviewSnapshot ==
    /\ sub' = [kind |-> "snapshot", data |-> frames, value |-> PreviewCallbackValue(frames),
               calls |-> PreviewSnapshotCalls(frames)]
    /\ sub # sub'
    /\ UNCHANGED <<storeVars, pubVars, rd, pageVars, extVars>>

\* lines 353-356: the subscription reports an error
PreviewError ==
    /\ sub' = [kind |-> "error", data |-> NoData, value |-> Null, calls |-> PreviewErrorCalls]
    /\ sub # sub'
    /\ UNCHANGED <<storeVars, pubVars, rd, pageVars, extVars>>

\* loadActiveFrameImage lines 254-296: get resolves with the current collection
LoadActiveFrame ==
    /\ rd' = [kind |-> "value", data |-> frames, value |-> LoadActiveFrameImage(frames)]
    /\ rd # rd'
    /\ UNCHANGED <<storeVars, pubVars, sub, pageVars, extVars>>

\* lines 298-302: get rejects, the error is swallowed and null returned
LoadActiveFrameError ==
    /\ rd' = [kind |-> "error", data |-> NoData, value |-> Null]
    /\ rd # rd'
    /\ UNCHANGED <<storeVars, pubVars, sub, pageVars, extVars>>


(* ---------------- ImageProcessor.loadTargetImage ---------------- *)
\* lines 27-31: a frame image whose load event fired (decoded, non-zero size)
FrameImage(frameDataUrl) ==
    [kind |-> "frame", src |-> frameDataUrl, width |-> FinalWidth, height |-> FinalHeight]

\* lines 58-64, 80-92: the placeholder drawn on a finalWidth x finalHeight canvas;
\* an image whose error event fired reports width 0 and height 0
DefaultImage(loaded) ==
    [kind |-> "default", src |-> Null,
     width |-> IF loaded THEN FinalWidth ELSE 0,
     height |-> IF loaded THEN FinalHeight ELSE 0]

\* no loadTargetImage call has been made
NoLoad == [id |-> "none", done |-> FALSE, image |-> NoImage]

\* line 19: call l is entered and is now the most recently started one
Started(l) == [id |-> l, done |-> FALSE, image |-> NoImage]

\* lines 29 and 82-90: call l assigned img to this.targetImage
Assigned(l, img) == IF newest.id = l THEN [id |-> l, done |-> TRUE, image |-> img] ELSE newest

\* line 22: the call starts and awaits dataManager.loadActiveFrameImage()
LoadTargetImage(l) ==
    /\ l = "page"
    /\ lpc[l] = "idle"
    /\ lpc' = [lpc EXCEPT ![l] = "fetch"]
    /\ limg' = [limg EXCEPT ![l] = Null]
    /\ lres' = [lres EXCEPT ![l] = "none"]
    /\ newest' = Started(l)
    /\ UNCHANGED <<storeVars, pubVars, obsVars, extVars, compVars, procVars>>

\* lines 22-44: loadActiveFrameImage resolved from a fetched collection
LoadTargetFetched(l) ==
    /\ lpc[l] = "fetch"
    /\ LET frameDataUrl == LoadActiveFrameImage(frames)
       IN /\ limg' = [limg EXCEPT ![l] = frameDataUrl]
          /\ lpc' = [lpc EXCEPT ![l] = IF frameDataUrl # Null THEN "decode" ELSE "default"]
          /\ lres' = [lres EXCEPT ![l] = IF frameDataUrl # Null THEN "frame" ELSE "absent"]
    /\ UNCHANGED <<storeVars, pubVars, obsVars, extVars, newest, compVars, procVars>>

\* data-manager.js lines 298-302, then lines 40-44: the fetch failed, null came back
LoadTargetFetchFailed(l) ==
    /\ lpc[l] = "fetch"
    /\ limg' = [limg EXCEPT ![l] = Null]
    /\ lpc' = [lpc EXCEPT ![l] = "default"]
    /\ lres' = [lres EXCEPT ![l] = "fetchFailed"]
    /\ UNCHANGED <<storeVars, pubVars, obsVars, extVars, newest, compVars, procVars>>

\* lines 28-32: img.onload
FrameOnload(l) ==
    /\ lpc[l] = "decode"
    /\ targetImage' = FrameImage(limg[l])
    /\ newest' = Assigned(l, targetImage')
    /\ lpc' = [lpc EXCEPT ![l] = "done"]
    /\ UNCHANGED <<storeVars, pubVars, obsVars, extVars, limg, lres, backgroundImage, zoomLevel,
                   xPosition, yPosition, procVars>>

\* faulty variant: the error handler resolves without creating the placeholder
AfterFrameErrorResolve == "done"

\* lines 33-37: on a decode error the placeholder is created before resolving
AfterFrameError == "default"

\* lines 33-37: img.onerror
FrameOnerror(l) ==
    /\ lpc[l] = "decode"
    /\ lpc' = [lpc EXCEPT ![l] = AfterFrameError]
    /\ lres' = [lres EXCEPT ![l] = "decodeFailed"]
    /\ UNCHANGED <<storeVars, pubVars, obsVars, extVars, newest, limg, compVars, procVars>>

\* createDefaultFrame lines 81-85: the placeholder's load event
DefaultFrameOnload(l) ==
    /\ lpc[l] = "default"
    /\ targetImage' = DefaultImage(TRUE)
    /\ newest' = Assigned(l, targetImage')
    /\ lpc' = [lpc EXCEPT ![l] = "done"]
    /\ UNCHANGED <<storeVars, pubVars, obsVars, extVars, limg, lres, backgroundImage, zoomLevel,
                   xPosition, yPosition, procVars>>

\* createDefaultFrame lines 86-91: the placeholder's error event, the image is kept
DefaultFrameOnerror(l) ==
    /\ lpc[l] = "default"
    /\ targetImage' = DefaultImage(FALSE)
    /\ newest' = Assigned(l, targetImage')
    /\ lpc' = [lpc EXCEPT ![l] = "done"]
    /\ UNCHANGED <<storeVars, pubVars, obsVars, extVars, limg, lres, backgroundImage, zoomLevel,
                   xPosition, yPosition, procVars>>

\* the awaiting page code (initialize line 70, reloadFrameImage line 530) resumes
LoadTargetReturn(l) ==
    /\ l # "compose"
    /\ lpc[l] = "done"
    /\ lpc' = [lpc EXCEPT ![l] = "idle"]
    /\ limg' = [limg EXCEPT ![l] = Null]
    /\ lres' = [lres EXCEPT ![l] = "none"]
    /\ newest' = newest
    /\ UNCHANGED <<storeVars, pubVars, obsVars, extVars, compVars, procVars>>

(* ---------------- ImageProcessor setters ---------------- *)
\* lines 100-103, called with an image whose load event fired (app-controller.js
\* line 162, image-processor.js line 130)
SetBackgroundImage(size) ==
    /\ backgroundImage' = [kind |-> "photo", src |-> Null, width |-> size[1], height |-> size[2]]
    /\ backgroundImage' # backgroundImage
    /\ UNCHANGED <<storeVars, pubVars, obsVars, extVars, loadVars, targetImage, zoomLevel,
                   xPosition, yPosition, procVars>>

\* lines 145-148
SetZoom(zoom) ==
    /\ zoomLevel' = zoom
    /\ zoomLevel' # zoomLevel
    /\ UNCHANGED <<storeVars, pubVars, obsVars, extVars, loadVars, targetImage, backgroundImage,
                   xPosition, yPosition, procVars>>

\* lines 154-157
SetXPosition(x) ==
    /\ xPosition' = x
    /\ xPosition' # xPosition
    /\ UNCHANGED <<storeVars, pubVars, obsVars, extVars, loadVars, targetImage, backgroundImage,
                   zoomLevel, yPosition, procVars>>

\* lines 163-166
SetYPosition(y) ==
    /\ yPosition' = y
    /\ yPosition' # yPosition
    /\ UNCHANGED <<storeVars, pubVars, obsVars, extVars, loadVars, targetImage, backgroundImage,
                   zoomLevel, xPosition, procVars>>

\* faulty variant: the frame is cleared together with the photograph
ResetFieldsAndFrame ==
    /\ zoomLevel' = 100
    /\ xPosition' = 0
    /\ yPosition' = 0
    /\ backgroundImage' = NoImage
    /\ targetImage' = NoImage

\* faulty variant: every transform parameter is set to 0
ResetFieldsToZero ==
    /\ zoomLevel' = 0
    /\ xPosition' = 0
    /\ yPosition' = 0
    /\ backgroundImage' = NoImage
    /\ targetImage' = targetImage

\* lines 171-176: the assignments of reset(); targetImage is not assigned
ResetFields ==
    /\ zoomLevel' = 100
    /\ xPosition' = 0
    /\ yPosition' = 0
    /\ backgroundImage' = NoImage
    /\ targetImage' = targetImage

\* lines 171-176, called on its own
Reset ==
    /\ ResetFields
    /\ <<zoomLevel, xPosition, yPosition, backgroundImage>> #
       <<zoomLevel', xPosition', yPosition', backgroundImage'>>
    /\ UNCHANGED <<storeVars, pubVars, obsVars, extVars, loadVars, procVars>>

\* faulty variant: the x and y settings are exchanged
GetSettingsSwapped == [zoom |-> zoomLevel, xPosition |-> yPosition, yPosition |-> xPosition]

\* lines 507-513
GetSettings == [zoom |-> zoomLevel, xPosition |-> xPosition, yPosition |-> yPosition]

\* lines 519-521
IsReady == targetImage # NoImage /\ backgroundImage # NoImage

(* ---------------- ImageProcessor.waitForImageLoad ---------------- *)
\* lines 331-396, for an image whose load or error event has already fired: lines
\* 333-342 answer at once; otherwise neither the polling (lines 348-357) nor the
\* listeners (lines 363-394) ever see a size, and the wait ends false after maxWaitMs
WaitForImageLoad(img) ==
    IF img = NoImage THEN "false"
    ELSE IF img.width > 0 /\ img.height > 0 THEN "true"
    ELSE "false"

(* ---------------- ImageProcessor.processImages ---------------- *)
\* faulty variant: the precondition is not tested
MissingBackgroundIgnored(bg) == FALSE

\* line 403
MissingBackground(bg) == bg = NoImage

\* faulty variant: the frame is drawn without the readiness test
FrameUsableUnchecked(ready, img) == TRUE

\* line 435, negated
FrameUsable(ready, img) == ready = "true" /\ img.width # 0 /\ img.height # 0

\* line 439, negated (reading .width of null throws)
BackgroundUsable(ready, img) == ready = "true" /\ img # NoImage /\ img.width # 0 /\ img.height # 0

(* ---------------- exact arithmetic for the compose geometry ---------------- *)
\* JavaScript numbers are modelled as exact fractions <<numerator, denominator>> in
\* lowest terms with a positive denominator (the rounding of doubles is not modelled)
Abs(n) == IF n < 0 THEN 0 - n ELSE n

RECURSIVE GCD(_, _)
GCD(a, b) == IF b = 0 THEN a ELSE GCD(b, a % b)

Rat(n, d) == LET g == GCD(Abs(n), d) IN <<n \div g, d \div g>>

RatOf(i) == <<i, 1>>
RatDiv(p, q) == Rat(p[1] * q[2], p[2] * q[1])      \* p / q, for q > 0
RatMul(p, q) == Rat(p[1] * q[1], p[2] * q[2])
RatAdd(p, q) == Rat(p[1] * q[2] + q[1] * p[2], p[2] * q[2])
RatSub(p, q) == Rat(p[1] * q[2] - q[1] * p[2], p[2] * q[2])
RatLE(p, q) == p[1] * q[2] <= q[1] * p[2]
RatMax(p, q) == IF RatLE(p, q) THEN q ELSE p        \* Math.max
RatMin(p, q) == IF RatLE(p, q) THEN p ELSE q

(* ---------------- ImageProcessor.processImages: the drawing ---------------- *)
\* faulty variant: the smaller ratio is taken, the photograph is fitted inside the canvas
BaseScaleContain(scaleX, scaleY) == RatMin(scaleX, scaleY)

\* line 472
BaseScale(scaleX, scaleY) == RatMax(scaleX, scaleY)

\* faulty variant: the photograph is placed at the canvas origin
BaseOffsetTopLeft(canvasSize, scaledSize) == RatOf(0)

\* lines 477-478
BaseOffset(canvasSize, scaledSize) == RatDiv(RatSub(canvasSize, scaledSize), RatOf(2))

\* faulty variant: the pan range is half the canvas, not half the overflow
MaxOffsetOfCanvas(canvasSize, scaledSize) == RatDiv(canvasSize, RatOf(2))

\* faulty variant: the overflow is not cut off at 0
MaxOffsetUnclamped(canvasSize, scaledSize) == RatDiv(RatSub(scaledSize, canvasSize), RatOf(2))

\* lines 479-480
MaxOffset(canvasSize, scaledSize) ==
    RatMax(RatOf(0), RatDiv(RatSub(scaledSize, canvasSize), RatOf(2)))

\* lines 470-482: the rectangle at which the background is drawn (line 488)
BackgroundPlacement(bgWidth, bgHeight, canvasWidth, canvasHeight, zoom, x, y) ==
    LET scaleX == RatDiv(RatOf(canvasWidth), RatOf(bgWidth))
        scaleY == RatDiv(RatOf(canvasHeight), RatOf(bgHeight))
        baseScale == BaseScale(scaleX, scaleY)
        finalScale == RatMul(baseScale, RatDiv(RatOf(zoom), RatOf(100)))
        scaledWidth == RatMul(RatOf(bgWidth), finalScale)
        scaledHeight == RatMul(RatOf(bgHeight), finalScale)
        baseOffsetX == BaseOffset(RatOf(canvasWidth), scaledWidth)
        baseOffsetY == BaseOffset(RatOf(canvasHeight), scaledHeight)
        maxOffsetX == MaxOffset(RatOf(canvasWidth), scaledWidth)
        maxOffsetY == MaxOffset(RatOf(canvasHeight), scaledHeight)
        finalOffsetX == RatAdd(baseOffsetX, RatMul(RatDiv(RatOf(x), RatOf(100)), maxOffsetX))
        finalOffsetY == RatAdd(baseOffsetY, RatMul(RatDiv(RatOf(y), RatOf(100)), maxOffsetY))
    IN [offsetX |-> finalOffsetX, offsetY |-> finalOffsetY,
        scaledWidth |-> scaledWidth, scaledHeight |-> scaledHeight]

\* lines 456-496: the canvas takes the final size, the background is drawn at its
\* placement and the frame over the whole canvas; the composite is kept as the inputs
\* and the rectangle it was drawn from
Composite(bg, frame, zoom, x, y) ==
    [kind |-> "raster", width |-> FinalWidth, height |-> FinalHeight,
     background |-> bg, frame |-> frame, zoom |-> zoom, xPosition |-> x, yPosition |-> y,
     drawn |-> BackgroundPlacement(bg.width, bg.height, FinalWidth, FinalHeight, zoom, x, y)]

\* lines 429-432: the images are logged, the wait for the frame starts
StartWaiting ==
    IF backgroundImage = NoImage
    THEN /\ ppc' = "failed"
         /\ perr' = "TypeError"
         /\ UNCHANGED <<targetReady, backgroundReady, out>>
    ELSE /\ ppc' = "waitTarget"
         /\ targetReady' = WaitForImageLoad(targetImage)
         /\ UNCHANGED <<backgroundReady, perr, out>>

\* lines 402-432: the call, up to its first await
ProcessImages ==
    /\ ppc = "idle"
    /\ lpc["compose"] = "idle"
    /\ IF MissingBackground(backgroundImage)
       THEN /\ ppc' = "failed"
            /\ perr' = "MissingBackground"
            /\ UNCHANGED <<targetReady, backgroundReady, out, loadVars>>
       ELSE IF targetImage = NoImage
       THEN /\ ppc' = "loading"
            /\ lpc' = [lpc EXCEPT !["compose"] = "fetch"]
            /\ newest' = Started("compose")
            /\ UNCHANGED <<targetReady, backgroundReady, perr, out, limg, lres>>
       ELSE /\ StartWaiting
            /\ UNCHANGED loadVars
    /\ UNCHANGED <<storeVars, pubVars, obsVars, extVars, compVars>>

\* lines 411-432: loadTargetImage (or createDefaultFrame) resolved
ProcessImagesLoaded ==
    /\ ppc = "loading"
    /\ lpc["compose"] = "done"
    /\ IF targetImage = NoImage
       THEN /\ lpc' = [lpc EXCEPT !["compose"] = "default"]
            /\ UNCHANGED <<limg, lres, newest, procVars>>
       ELSE /\ lpc' = [lpc EXCEPT !["compose"] = "idle"]
            /\ limg' = [limg EXCEPT !["compose"] = Null]
            /\ lres' = [lres EXCEPT !["compose"] = "none"]
            /\ newest' = newest
            /\ StartWaiting
    /\ UNCHANGED <<storeVars, pubVars, obsVars, extVars, compVars>>

\* lines 432-433: the wait for the frame resolved, the wait for the background starts
ProcessImagesFrameWaited ==
    /\ ppc = "waitTarget"
    /\ ppc' = "waitBackground"
    /\ backgroundReady' = WaitForImageLoad(backgroundImage)
    /\ UNCHANGED <<storeVars, pubVars, obsVars, extVars, loadVars, compVars, targetReady, perr, out>>

\* lines 433-500: the wait for the background resolved; tests and drawing run in one turn
ProcessImagesDraw ==
    /\ ppc = "waitBackground"
    /\ IF ~FrameUsable(targetReady, targetImage)
       THEN ppc' = "failed" /\ perr' = "FrameNotReady" /\ out' = out
       ELSE IF backgroundReady = "true" /\ backgroundImage = NoImage
       THEN ppc' = "failed" /\ perr' = "TypeError" /\ out' = out
       ELSE IF ~BackgroundUsable(backgroundReady, backgroundImage)
       THEN ppc' = "failed" /\ perr' = "BackgroundNotReady" /\ out' = out
       ELSE /\ ppc' = "done"
            /\ perr' = perr
            /\ out' = Composite(backgroundImage, targetImage, zoomLevel, xPosition, yPosition)
    /\ canvas' = IF ppc' = "done" THEN out' ELSE canvas
    /\ UNCHANGED <<storeVars, pubVars, obsVars, currentStep, entered, initVars, captureVars,
                   sideVars, loadVars, compVars, targetReady, backgroundReady>>

\* app-controller.js lines 102-110: the section of the step becomes the active one
GoToStep(step) == currentStep' = step /\ entered' = TRUE

\* app-controller.js lines 400-426: the caller takes the result and shows step 3, or
\* takes the error and alerts its message (perr)
ProcessImagesReturn ==
    /\ ppc \in {"done", "failed"}
    /\ ppc' = "idle"
    /\ targetReady' = "unset"
    /\ backgroundReady' = "unset"
    /\ perr' = "none"
    /\ out' = NoOutput
    /\ IF ppc = "done" THEN GoToStep(3) ELSE UNCHANGED <<currentStep, entered>>
    /\ UNCHANGED <<storeVars, pubVars, obsVars, canvas, initVars, captureVars, sideVars,
                   loadVars, compVars>>

(* ---------------- the sliders of step 2 ---------------- *)
\* the value of a range input is the decimal text of an integer: a sequence of characters
Digits == {"0", "1", "2", "3", "4", "5", "6", "7", "8", "9"}

DigitValue(c) ==
    CASE c = "0" -> 0 [] c = "1" -> 1 [] c = "2" -> 2 [] c = "3" -> 3 [] c = "4" -> 4
      [] c = "5" -> 5 [] c = "6" -> 6 [] c = "7" -> 7 [] c = "8" -> 8 [] c = "9" -> 9

\* the digits at the head of the text, folded in base 10 (the text starts with a digit)
RECURSIVE ParseDigits(_, _)
ParseDigits(text, acc) ==
    IF text = << >> \/ Head(text) \notin Digits THEN acc
    ELSE ParseDigits(Tail(text), 10 * acc + DigitValue(Head(text)))

\* image-processor.js lines 310, 315, 320: parseInt of the slider's value; NaN is
\* written "NaN"
ParseInt(text) ==
    IF text # << >> /\ Head(text) = "-"
    THEN IF Len(text) > 1 /\ text[2] \in Digits THEN 0 - ParseDigits(Tail(text), 0) ELSE "NaN"
    ELSE IF text # << >> /\ Head(text) \in Digits THEN ParseDigits(text, 0) ELSE "NaN"

\* the values the zoom slider and the x and y sliders can report: the ends of their
\* ranges (50..200 and -100..100), the defaults and values in between
ZoomSliderValues == {<<"5", "0">>, <<"1", "0", "0">>, <<"1", "2", "0">>, <<"2", "0", "0">>}
PanSliderValues == {<<"-", "1", "0", "0">>, <<"-", "3", "0">>, <<"0">>, <<"5", "0">>, <<"1", "0", "0">>}

\* a settled promise's continuation runs before the next event handler: no handler
\* runs between the end of processImages and the continuation of its caller
\* (app-controller.js line 400)
NoPendingContinuation == ppc \notin {"done", "failed"}

\* image-processor.js lines 309-312: the zoom slider moved (step 2 is the active section)
ZoomSliderInput(value) ==
    /\ currentStep = 2
    /\ NoPendingContinuation
    /\ SetZoom(ParseInt(value))

\* image-processor.js lines 314-317
XSliderInput(value) ==
    /\ currentStep = 2
    /\ NoPendingContinuation
    /\ SetXPosition(ParseInt(value))

\* image-processor.js lines 319-322
YSliderInput(value) ==
    /\ currentStep = 2
    /\ NoPendingContinuation
    /\ SetYPosition(ParseInt(value))

(* ---------------- AppController: the steps ---------------- *)
\* faulty variant: the dimensions of the video are not tested
VideoNotReadyIgnored(videoWidth, videoHeight) == FALSE

\* part_003 line 201
VideoNotReady(videoWidth, videoHeight) == videoWidth = 0 \/ videoHeight = 0

\* app-controller.js lines 159-168 with part_003 lines 196-226: the call; it is
\* rejected and its message alerted, or the capture canvas takes the size of the
\* video and its encoding starts
CapturePhoto(videoSize) ==
    /\ currentStep = 1
    /\ NoPendingContinuation
    /\ cpc = "idle"
    /\ cimg' = videoSize
    /\ IF VideoNotReady(videoSize[1], videoSize[2])
       THEN cpc' = cpc /\ cerr' = "CameraNotReady"
       ELSE cpc' = "encoding" /\ cerr' = "none"
    /\ UNCHANGED <<storeVars, pubVars, obsVars, pageVars, appVars, fileVars, sideVars>>

\* part_003 lines 220-223 and app-controller.js lines 162-163: the captured image
\* loaded; it becomes the background and step 2 is shown
CaptureOnload ==
    /\ cpc = "encoding"
    /\ NoPendingContinuation
    /\ cpc' = "idle"
    /\ backgroundImage' = [kind |-> "photo", src |-> Null, width |-> cimg[1], height |-> cimg[2]]
    /\ GoToStep(2)
    /\ UNCHANGED <<storeVars, pubVars, obsVars, loadVars, targetImage, zoomLevel, xPosition,
                   yPosition, procVars, canvas, initVars, cimg, cerr, fileVars, sideVars>>

\* part_003 line 224 and app-controller.js lines 164-167: the captured image failed
\* to load; the rejection is alerted
CaptureOnerror ==
    /\ cpc = "encoding"
    /\ NoPendingContinuation
    /\ cpc' = "idle"
    /\ cerr' = "CaptureFailed"
    /\ UNCHANGED <<storeVars, pubVars, obsVars, pageVars, appVars, cimg, fileVars, sideVars>>

\* the files a selection or drop is made of: type as the browser reports it, whether
\* the file can be read, whether its content decodes as a raster, and its size then
ImagePng == <<"i", "m", "a", "g", "e", "/", "p", "n", "g">>
TextPlain == <<"t", "e", "x", "t", "/", "p", "l", "a", "i", "n">>
Files ==
    {[id |-> 1, type |-> ImagePng, readable |-> TRUE, decodes |-> TRUE, size |-> <<1200, 1800>>],
     [id |-> 2, type |-> ImagePng, readable |-> TRUE, decodes |-> FALSE, size |-> <<0, 0>>],
     [id |-> 3, type |-> TextPlain, readable |-> TRUE, decodes |-> FALSE, size |-> <<0, 0>>],
     [id |-> 4, type |-> << >>, readable |-> TRUE, decodes |-> TRUE, size |-> <<1920, 1080>>],
     [id |-> 5, type |-> ImagePng, readable |-> FALSE, decodes |-> FALSE, size |-> <<0, 0>>]}
NoFile == [id |-> 0, type |-> << >>, readable |-> FALSE, decodes |-> FALSE, size |-> <<0, 0>>]
FileLists ==
    {<< >>} \cup {<<f>> : f \in Files}
            \cup {<<f, g>> : f \in Files, g \in {h \in Files : h.id = 3 \/ h.id = 1}}

\* String.prototype.startsWith
StartsWith(text, prefix) ==
    /\ Len(text) >= Len(prefix)
    /\ SubSeq(text, 1, Len(prefix)) = prefix

\* faulty variant: every file passes
IsImageFileAny(file) == TRUE

\* app-controller.js line 187: file.type.startsWith('image/')
IsImageFile(file) == StartsWith(file.type, <<"i", "m", "a", "g", "e", "/">>)

\* app-controller.js line 187: Array.prototype.find, NoFile for undefined
RECURSIVE Find(_)
Find(files) ==
    IF files = << >> THEN NoFile
    ELSE IF IsImageFile(Head(files)) THEN Head(files)
    ELSE Find(Tail(files))

\* app-controller.js lines 175-192 with image-processor.js lines 122-137: a selection
\* or a drop on step 1: an empty one is passed over, one without an image file is
\* answered with an alert, else the image file's reading starts
HandleFileSelect(files) ==
    /\ currentStep = 1
    /\ NoPendingContinuation
    /\ fpc = "idle"
    /\ fsel' = files
    /\ IF files = << >>
       THEN fpc' = fpc /\ ffile' = ffile /\ falert' = "none"
       ELSE IF Find(files) = NoFile
       THEN fpc' = fpc /\ ffile' = ffile /\ falert' = "Please select an image file."
       ELSE fpc' = "reading" /\ ffile' = Find(files) /\ falert' = "none"
    /\ UNCHANGED <<storeVars, pubVars, obsVars, pageVars, appVars, cpc, cimg, cerr, sideVars>>

\* image-processor.js lines 127-134: reader.onload, the data URL is given to an Image
FileReaderOnload ==
    /\ fpc = "reading"
    /\ ffile.readable
    /\ fpc' = "decoding"
    /\ UNCHANGED <<storeVars, pubVars, obsVars, pageVars, appVars, cpc, cimg, cerr,
                   fsel, ffile, falert, sideVars>>

\* image-processor.js line 136 and app-controller.js lines 199-202: reader.onerror
FileReaderOnerror ==
    /\ fpc = "reading"
    /\ ~ffile.readable
    /\ NoPendingContinuation
    /\ fpc' = "idle"
    /\ falert' = "Error loading image. Please try again."
    /\ UNCHANGED <<storeVars, pubVars, obsVars, pageVars, appVars, cpc, cimg, cerr,
                   fsel, ffile, sideVars>>

\* image-processor.js lines 129-132 and app-controller.js lines 193-194: img.onload;
\* the image becomes the background and step 2 is shown
FileImageOnload ==
    /\ fpc = "decoding"
    /\ ffile.decodes
    /\ NoPendingContinuation
    /\ fpc' = "idle"
    /\ backgroundImage' = [kind |-> "photo", src |-> ffile.id,
                           width |-> ffile.size[1], height |-> ffile.size[2]]
    /\ GoToStep(2)
    /\ UNCHANGED <<storeVars, pubVars, obsVars, loadVars, targetImage, zoomLevel, xPosition,
                   yPosition, procVars, canvas, initVars, cpc, cimg, cerr, fsel, ffile, falert,
                   sideVars>>

\* image-processor.js line 133 and app-controller.js lines 199-202: img.onerror
FileImageOnerror ==
    /\ fpc = "decoding"
    /\ ~ffile.decodes
    /\ NoPendingContinuation
    /\ fpc' = "idle"
    /\ falert' = "Error loading image. Please try again."
    /\ UNCHANGED <<storeVars, pubVars, obsVars, pageVars, appVars, cpc, cimg, cerr,
                   fsel, ffile, sideVars>>

\* app-controller.js lines 382-385 (the button of step 2)
RetakePhoto ==
    /\ currentStep = 2
    /\ NoPendingContinuation
    /\ ResetFields
    /\ GoToStep(1)
    /\ UNCHANGED <<storeVars, pubVars, obsVars, loadVars, procVars, canvas, initVars, captureVars,
                   sideVars>>

\* app-controller.js lines 544-548 (the button of step 3)
StartOver ==
    /\ currentStep = 3
    /\ NoPendingContinuation
    /\ ResetFields
    /\ GoToStep(1)
    /\ UNCHANGED <<storeVars, pubVars, obsVars, loadVars, procVars, canvas, initVars, captureVars,
                   sideVars>>

\* app-controller.js lines 102-114 and image-processor.js lines 293-299: back from
\* the final result to the controls, which keep their values
BackToControls ==
    /\ currentStep = 3
    /\ NoPendingContinuation
    /\ GoToStep(2)
    /\ UNCHANGED <<storeVars, pubVars, obsVars, pageVars, canvas, initVars, captureVars, sideVars>>

\* app-controller.js lines 390-400: the button of step 2
ProcessImagesClick ==
    /\ currentStep = 2
    /\ NoPendingContinuation
    /\ ProcessImages

(* ---------------- DataManager.saveImage ---------------- *)
\* app-controller.js line 457: the template `${width}x${height}`, kept as its parts
Resolution(width, height) == <<width, "x", height>>

\* data-manager.js line 69: '1200x1800'
DefaultResolution == <<1200, "x", 1800>>

\* an object literal { ...base, ...over }: a later property replaces an earlier one
Spread(base, over) ==
    [f \in (DOMAIN base) \cup (DOMAIN over) |-> IF f \in DOMAIN over THEN over[f] ELSE base[f]]

\* data-manager.js lines 61-72 (filename, size and sizeMB are left out); the
\* placeholder of serverTimestamp() is replaced when the record is written
ImageData(imageDataUrl, metadata) ==
    Spread([imageData |-> imageDataUrl,
            uploadedAt |-> "serverTimestamp",
            type |-> "image/png",
            quality |-> "high",
            resolution |-> IF "resolution" \in DOMAIN metadata
                           THEN metadata.resolution ELSE DefaultResolution,
            settings |-> IF "settings" \in DOMAIN metadata
                         THEN metadata.settings ELSE << >>],
           metadata)

\* data-manager.js lines 37-76: the record is built and push() generates its key
SaveImage(imageDataUrl, metadata) ==
    /\ spc = "idle"
    /\ saves < MaxSaves
    /\ saves' = saves + 1
    /\ spc' = "pushing"
    /\ srec' = [key |-> ikey, data |-> ImageData(imageDataUrl, metadata)]
    /\ ikey' = ikey + 1
    /\ UNCHANGED <<images, sres>>

\* data-manager.js lines 76-79: the record reached the database and was written
\* with the server's time; the key is returned
SaveImagePushed ==
    /\ spc = "pushing"
    /\ \E t \in {now, now + 1} :
          /\ now' = t
          /\ images' = (srec.key :> [srec.data EXCEPT !.uploadedAt =
                                        IF @ = "serverTimestamp" THEN t ELSE @]) @@ images
    /\ spc' = "idle"
    /\ sres' = srec.key
    /\ srec' = [key |-> NoKey, data |-> NoData]
    /\ UNCHANGED <<frames, nextKey, started, pubVars, obsVars, pageVars, appVars, captureVars, cameraVars,
                   ikey, saves, galleryVars>>

\* data-manager.js lines 81-84: the write was rejected, the error is rethrown
SaveImageFailed ==
    /\ spc = "pushing"
    /\ spc' = "idle"
    /\ sres' = "error"
    /\ srec' = [key |-> NoKey, data |-> NoData]
    /\ UNCHANGED <<storeVars, pubVars, obsVars, pageVars, appVars, captureVars, cameraVars,
                   images, ikey, saves, galleryVars>>

\* app-controller.js lines 447-464: the button of step 3; the canvas is encoded and
\* sent with its size and the composer's current settings
AppSaveImage ==
    /\ currentStep = 3
    /\ NoPendingContinuation
    /\ SaveImage(canvas, [resolution |-> Resolution(canvas.width, canvas.height),
                          settings |-> GetSettings])
    /\ UNCHANGED <<storeVars, pubVars, obsVars, pageVars, appVars, captureVars, cameraVars, galleryVars>>

\* a booth page saves a composite: data-manager.js lines 37-76 called from
\* app-controller.js line 464
BoothSaveImage(imageDataUrl, metadata) ==
    /\ SaveImage(imageDataUrl, metadata)
    /\ UNCHANGED <<storeVars, pubVars, obsVars, pageVars, appVars, captureVars, cameraVars, galleryVars>>

(* ---------------- DataManager.deleteImage ---------------- *)
\* faulty variant: the reference names the whole collection
RemoveCollection(data, imageId) == NoData

\* data-manager.js lines 148-149: remove() of magik-events-images/<imageId>; there is
\* no test that the record exists, a path that holds nothing is removed to nothing
Remove(data, imageId) == [key \in (DOMAIN data) \ {imageId} |-> data[key]]

\* gallery-controller.js lines 315-321 and data-manager.js lines 140-149: the
\* deletion was confirmed, the request is sent
DeleteImage(imageId) ==
    /\ dpc = "idle"
    /\ dpc' = "removing"
    /\ did' = imageId
    /\ UNCHANGED <<storeVars, pubVars, obsVars, pageVars, appVars, captureVars, cameraVars, saveVars,
                   gal, dres, dhit>>

\* data-manager.js lines 149-151: the removal was applied, the call returns
DeleteImageRemoved ==
    /\ dpc = "removing"
    /\ images' = Remove(images, did)
    /\ dhit' = (did \in DOMAIN images)
    /\ dpc' = "idle"
    /\ dres' = "ok"
    /\ UNCHANGED <<storeVars, pubVars, obsVars, pageVars, appVars, captureVars, cameraVars,
                   ikey, saves, spc, srec, sres, gal, did>>

\* data-manager.js lines 153-156 and gallery-controller.js lines 323-326: the request
\* was rejected, the error is rethrown and alerted
DeleteImageFailed ==
    /\ dpc = "removing"
    /\ dpc' = "idle"
    /\ dres' = "error"
    /\ UNCHANGED <<storeVars, pubVars, obsVars, pageVars, appVars, captureVars, cameraVars, saveVars,
                   gal, did, dhit>>

(* ---------------- DataManager.loadImages ---------------- *)
\* a value is truthy unless it is 0 (uploadedAt is a number)
Truthy(v) == v # 0

\* faulty variant: the difference is taken the other way round
CompareAscending(a, b) ==
    IF Truthy(a.uploadedAt) /\ Truthy(b.uploadedAt) THEN a.uploadedAt - b.uploadedAt ELSE 0

\* data-manager.js lines 115-120: the comparator given to sort
Compare(a, b) ==
    IF Truthy(a.uploadedAt) /\ Truthy(b.uploadedAt) THEN b.uploadedAt - a.uploadedAt ELSE 0

\* Array.prototype.sort is stable: an element is placed before the first one that
\* the comparator orders after it
RECURSIVE InsertSorted(_, _)
InsertSorted(sorted, image) ==
    IF sorted = << >> THEN <<image>>
    ELSE IF Compare(Head(sorted), image) > 0 THEN <<image>> \o sorted
    ELSE <<Head(sorted)>> \o InsertSorted(Tail(sorted), image)

RECURSIVE Sort(_, _)
Sort(list, sorted) ==
    IF list = << >> THEN sorted ELSE Sort(Tail(list), InsertSorted(sorted, Head(list)))

\* data-manager.js lines 107-112: one entry per key, in the order of Object.keys
RECURSIVE ImagesOf(_, _)
ImagesOf(data, keys) ==
    IF keys = {} THEN << >>
    ELSE LET key == MinKey(keys)
         IN <<Spread([id |-> key], data[key])>> \o ImagesOf(data, keys \ {key})

\* data-manager.js lines 103-121: the list given to the callback
LoadImagesList(data) ==
    IF data = NoData THEN << >> ELSE Sort(ImagesOf(data, DOMAIN data), << >>)

\* data-manager.js lines 102-123: the subscription delivers the collection
LoadImagesSnapshot ==
    /\ gal' = [kind |-> "value", data |-> images, list |-> LoadImagesList(images)]
    /\ gal' # gal
    /\ UNCHANGED <<storeVars, pubVars, obsVars, pageVars, appVars, captureVars, cameraVars, saveVars,
                   dpc, did, dres, dhit>>

\* data-manager.js lines 124-127: the subscription reports an error
LoadImagesError ==
    /\ gal' = [kind |-> "error", data |-> NoData, list |-> << >>]
    /\ gal' # gal
    /\ UNCHANGED <<storeVars, pubVars, obsVars, pageVars, appVars, captureVars, cameraVars, saveVars,
                   dpc, did, dres, dhit>>

(* ---------------- CameraManager ---------------- *)
\* part_003 lines 69-87: the two camera options
FacingMode(index) == IF index = 0 THEN "user" ELSE "environment"

\* part_003 lines 136-165: startCamera up to its await: the tracks of this.stream are
\* stopped, this.stream keeps its value, a stream is requested
StartCamera(caller) ==
    /\ nreq < MaxStreams
    /\ live' = live \ {stream}
    /\ nreq' = nreq + 1
    /\ requests' = requests \cup {[id |-> nreq + 1, caller |-> caller,
                                    facingMode |-> FacingMode(currentCameraIndex')]}
    /\ stream' = stream

\* part_003 lines 165-172, app-controller.js lines 245-258 and 269-272: getUserMedia
\* resolved, the new stream is assigned to this.stream
GetUserMediaResolved(request) ==
    /\ request \in requests
    /\ requests' = requests \ {request}
    /\ stream' = request.id
    /\ live' = live \cup {request.id}
    /\ starting' = (IF request.caller = "app" THEN FALSE ELSE starting)
    /\ UNCHANGED <<storeVars, pubVars, obsVars, pageVars, appVars, captureVars, saveVars,
                   galleryVars, nreq, currentCameraIndex, hidden>>

\* part_003 lines 174-189, app-controller.js lines 245-258 and 269-272: getUserMedia
\* rejected, the message is shown and this.stream is left as it was
GetUserMediaRejected(request) ==
    /\ request \in requests
    /\ requests' = requests \ {request}
    /\ starting' = (IF request.caller = "app" THEN FALSE ELSE starting)
    /\ UNCHANGED <<storeVars, pubVars, obsVars, pageVars, appVars, captureVars, saveVars,
                   galleryVars, stream, live, nreq, currentCameraIndex, hidden>>

\* part_003 lines 94-107: the switch button; startCamera is called and not awaited
SwitchToNextCamera ==
    /\ currentStep = 1
    /\ ~hidden
    /\ currentCameraIndex' = (IF currentCameraIndex = 0 THEN 1 ELSE 0)
    /\ StartCamera("switch")
    /\ UNCHANGED <<storeVars, pubVars, obsVars, pageVars, appVars, captureVars, saveVars,
                   galleryVars, hidden, starting>>

\* part_003 lines 114-130
SwitchCamera(index) ==
    /\ ~(index = currentCameraIndex)
    /\ index \in {0, 1}
    /\ currentCameraIndex' = index
    /\ StartCamera("switch")
    /\ UNCHANGED <<storeVars, pubVars, obsVars, pageVars, appVars, captureVars, saveVars,
                   galleryVars, hidden, starting>>

\* part_003 lines 233-238
StopCamera ==
    /\ live' = live \ {stream}
    /\ stream' = NoStream

\* app-controller.js lines 228-246: the start button, which is disabled while the call
\* runs; isInitialized is true since initialize() returned, line 241 is passed over
AppStartCamera ==
    /\ currentStep = 1
    /\ ~hidden
    /\ ~starting
    /\ starting' = TRUE
    /\ currentCameraIndex' = currentCameraIndex
    /\ StartCamera("app")
    /\ UNCHANGED <<storeVars, pubVars, obsVars, pageVars, appVars, captureVars, saveVars,
                   galleryVars, hidden>>

\* app-controller.js lines 278-281: the stop button
AppStopCamera ==
    /\ currentStep = 1
    /\ ~hidden
    /\ StopCamera
    /\ UNCHANGED <<storeVars, pubVars, obsVars, pageVars, appVars, captureVars, saveVars,
                   galleryVars, requests, nreq, currentCameraIndex, hidden, starting>>

\* app-controller.js lines 571-580, image-processor.js lines 527-530: the frame is
\* loaded again while step 1 is shown; of the calls one caller makes, one is in
\* flight at a time
ReloadFrameIfNeeded(l) ==
    IF currentStep = 1 /\ lpc[l] = "idle"
       THEN /\ lpc' = [lpc EXCEPT ![l] = "fetch"]
            /\ limg' = [limg EXCEPT ![l] = Null]
            /\ lres' = [lres EXCEPT ![l] = "none"]
            /\ newest' = Started(l)
       ELSE UNCHANGED loadVars

\* app-controller.js lines 592-594: the window got the focus
WindowFocus ==
    /\ currentStep = 1
    /\ lpc["focus"] = "idle"
    /\ ReloadFrameIfNeeded("focus")
    /\ UNCHANGED <<storeVars, pubVars, obsVars, compVars, procVars, extVars>>

\* app-controller.js lines 560-567 and 588-590: the page was hidden or shown again.
\* A hidden page stops the camera; a page shown again reloads the frame
HandleVisibilityChange ==
    /\ hidden' = ~hidden
    /\ IF hidden' /\ stream # NoStream
          THEN StopCamera
          ELSE UNCHANGED <<stream, live>>
    /\ IF ~hidden'
          THEN ReloadFrameIfNeeded("visible")
          ELSE UNCHANGED loadVars
    /\ UNCHANGED <<storeVars, pubVars, obsVars, compVars, procVars, appVars, captureVars,
                   saveVars, galleryVars, requests, nreq, currentCameraIndex, starting>>

(* ---------------- AppController.initialize ---------------- *)
\* app-controller.js lines 623-628 and 51-63: DOMContentLoaded; the loader is shown
\* and firebaseService.initialize() awaited
InitializeApp ==
    /\ ipc = "new"
    /\ ipc' = "firebase"
    /\ loader' = "Connecting to Firebase..."
    /\ UNCHANGED <<storeVars, pubVars, obsVars, pageVars, currentStep, entered, canvas,
                   isInitialized, captureVars, sideVars>>

\* data-manager.js lines 18-23: initialize; it throws when the flag stays false
DataManagerInitialize(flags) == [flags EXCEPT !.dataManager = flags.firebaseService]

\* faulty variant: the handler of the error marks the application initialized
InitializeCaughtAsReady(flags) == [flags EXCEPT !.appController = TRUE]

\* app-controller.js lines 85-95: the catch leaves isInitialized as it is
InitializeCaught(flags) == flags

FailedLoaderMessage == "Failed to initialize. Please refresh the page."

\* part_000 lines 31-39 and app-controller.js lines 63-70: Firebase is initialized,
\* then the data manager, and the frame load starts
FirebaseInitialized ==
    /\ ipc = "firebase"
    /\ LET flags == DataManagerInitialize([isInitialized EXCEPT !.firebaseService = TRUE])
       IN IF flags.dataManager
          THEN /\ isInitialized' = flags
               /\ ipc' = "frame"
               /\ loader' = "Loading frame image..."
               /\ lpc' = [lpc EXCEPT !["page"] = "fetch"]
               /\ newest' = Started("page")
          ELSE /\ isInitialized' = InitializeCaught(flags)
               /\ ipc' = "failed"
               /\ loader' = FailedLoaderMessage
               /\ lpc' = lpc
               /\ newest' = newest
    /\ UNCHANGED <<storeVars, pubVars, obsVars, limg, lres, compVars, procVars, currentStep,
                   entered, canvas, captureVars, sideVars>>

\* part_000 lines 40-43 and app-controller.js lines 85-95: firebaseService.initialize
\* rejected; the loader asks for a reload
FirebaseFailed ==
    /\ ipc = "firebase"
    /\ isInitialized' = InitializeCaught(isInitialized)
    /\ ipc' = "failed"
    /\ loader' = FailedLoaderMessage
    /\ UNCHANGED <<storeVars, pubVars, obsVars, pageVars, currentStep, entered, canvas,
                   captureVars, sideVars>>

\* app-controller.js lines 90-93: two seconds later the loader is hidden and the
\* message alerted
InitializeFailedAlert ==
    /\ ipc = "failed"
    /\ ipc' = "alerted"
    /\ loader' = "hidden"
    /\ UNCHANGED <<storeVars, pubVars, obsVars, pageVars, currentStep, entered, canvas,
                   isInitialized, captureVars, sideVars>>

\* app-controller.js lines 70-75 and part_003 lines 31-34, 47-73: loadTargetImage
\* resolved; the camera options are set and the camera is started
InitializeFrameLoaded ==
    /\ ipc = "frame"
    /\ lpc["page"] = "done"
    /\ lpc' = [lpc EXCEPT !["page"] = "idle"]
    /\ limg' = [limg EXCEPT !["page"] = Null]
    /\ lres' = [lres EXCEPT !["page"] = "none"]
    /\ newest' = newest
    /\ ipc' = "camera"
    /\ loader' = "Initializing camera..."
    /\ currentCameraIndex' = 0
    /\ StartCamera("init")
    /\ UNCHANGED <<storeVars, pubVars, obsVars, compVars, procVars, currentStep, entered, canvas,
                   isInitialized, captureVars, saveVars, galleryVars, hidden, starting>>

\* part_003 lines 165-189 and 35, app-controller.js lines 75-83: the camera request
\* of initialize settled either way; the application is initialized, the loader
\* hidden and step 1 shown
InitializeCameraSettled(request, granted) ==
    /\ ipc = "camera"
    /\ request \in requests
    /\ request.caller = "init"
    /\ requests' = requests \ {request}
    /\ stream' = (IF granted THEN request.id ELSE stream)
    /\ live' = (IF granted THEN live \cup {request.id} ELSE live)
    /\ isInitialized' = [isInitialized EXCEPT !.cameraManager = TRUE, !.appController = TRUE]
    /\ ipc' = "ready"
    /\ loader' = "hidden"
    /\ GoToStep(1)
    /\ UNCHANGED <<storeVars, pubVars, obsVars, pageVars, canvas, captureVars, saveVars,
                   galleryVars, nreq, currentCameraIndex, hidden, starting>>

\* the controls of a step can be used once goToStep has made a section the active one
SectionShown == entered

(* ---------------- specifications ---------------- *)
\* nothing saved, deleted or delivered yet
\* part_003 lines 31-35 and 136-165: the camera after initialize() returned: the
\* front camera is selected, its stream was granted or refused
CameraInitialized(granted) ==
    /\ stream = (IF granted THEN 1 ELSE NoStream)
    /\ live = (IF granted THEN {1} ELSE {})
    /\ requests = {}
    /\ nreq = 1
    /\ currentCameraIndex = 0
    /\ hidden = FALSE
    /\ starting = FALSE

\* part_003 lines 7-24: the camera manager as constructed
CameraNew ==
    /\ stream = NoStream
    /\ live = {}
    /\ requests = {}
    /\ nreq = 0
    /\ currentCameraIndex = 0
    /\ hidden = FALSE
    /\ starting = FALSE

Services == {"firebaseService", "dataManager", "cameraManager", "appController"}

\* the constructors (part_000 line 23, data-manager.js line 9, part_003 line 11,
\* app-controller.js lines 8-9)
AppNew ==
    /\ ipc = "new"
    /\ isInitialized = [service \in Services |-> FALSE]
    /\ loader = "none"
    /\ entered = FALSE

\* app-controller.js line 70: initialize awaits loadTargetImage
AppLoadingFrame ==
    /\ ipc = "frame"
    /\ isInitialized = [service \in Services |-> service \in {"firebaseService", "dataManager"}]
    /\ loader = "Loading frame image..."
    /\ entered = FALSE

\* app-controller.js lines 78-83: initialize returned
AppInitialized ==
    /\ ipc = "ready"
    /\ isInitialized = [service \in Services |-> TRUE]
    /\ loader = "hidden"
    /\ entered = TRUE

\* the frame a page holds was assigned by the loadTargetImage call of initialize
InitNewest ==
    newest = IF targetImage = NoImage THEN NoLoad
             ELSE [id |-> "page", done |-> TRUE, image |-> targetImage]

InitFile ==
    /\ fpc = "idle"
    /\ fsel = << >>
    /\ ffile = NoFile
    /\ falert = "none"

InitData ==
    /\ images = NoData
    /\ ikey = 1
    /\ saves = 0
    /\ spc = "idle"
    /\ srec = [key |-> NoKey, data |-> NoData]
    /\ sres = "none"
    /\ gal = [kind |-> "none", data |-> NoData, list |-> << >>]
    /\ dpc = "idle"
    /\ did = NoKey
    /\ dres = "none"
    /\ dhit = FALSE

InitSide ==
    /\ InitData
    /\ CameraInitialized(TRUE)

InitStore ==
    /\ now = 1
    /\ nextKey = 1
    /\ started = 0
    /\ pc = [c \in Clients |-> "idle"]
    /\ snap = [c \in Clients |-> NoData]
    /\ newKey = [c \in Clients |-> NoKey]
    /\ raster = [c \in Clients |-> Null]
    /\ dirty = [c \in Clients |-> FALSE]
    /\ prevDone = [c \in Clients |-> NoKey]
    /\ lastDone = NoKey
    /\ overlapped = FALSE
    /\ sub = [kind |-> "none", data |-> NoData, value |-> Null, calls |-> << >>]
    /\ rd = [kind |-> "none", data |-> NoData, value |-> Null]

InitPage ==
    /\ lpc = [l \in Loads |-> "idle"]
    /\ limg = [l \in Loads |-> Null]
    /\ lres = [l \in Loads |-> "none"]
    /\ targetImage = NoImage
    /\ backgroundImage = NoImage
    /\ InitNewest
    /\ zoomLevel = 100
    /\ xPosition = 0
    /\ yPosition = 0
    /\ ppc = "idle"
    /\ targetReady = "unset"
    /\ backgroundReady = "unset"
    /\ perr = "none"
    /\ out = NoOutput
    /\ currentStep = 1
    /\ canvas = BlankCanvas
    /\ AppLoadingFrame
    /\ cpc = "idle"
    /\ cimg = <<0, 0>>
    /\ cerr = "none"
    /\ InitFile
    /\ InitData
    /\ CameraNew

Init ==
    /\ frames = NoData
    /\ InitStore
    /\ InitPage

\* upload pages publishing, and a client reading the active frame
Next ==
    \/ \E c \in Clients : SaveFrameGet(c)
    \/ \E c \in Clients : SaveFrameUpdate(c)
    \/ \E c \in Clients : SaveFramePush(c)
    \/ \E c \in Clients : SaveFramePushed(c)
    \/ \E c \in Clients : SaveFrameFail(c)
    \/ \E c \in Clients : SaveFrameReturn(c)
    \/ LoadActiveFrame
    \/ LoadActiveFrameError

Spec == Init /\ [][Next]_vars

\* upload pages publishing, and an upload page subscribed to the active frame
NextPreview ==
    \/ \E c \in Clients : SaveFrameGet(c)
    \/ \E c \in Clients : SaveFrameUpdate(c)
    \/ \E c \in Clients : SaveFramePush(c)
    \/ \E c \in Clients : SaveFramePushed(c)
    \/ \E c \in Clients : SaveFrameFail(c)
    \/ \E c \in Clients : SaveFrameReturn(c)
    \/ PreviewSnapshot
    \/ PreviewError

SpecPreview == Init /\ [][NextPreview]_vars

\* the photobooth page (frame loads, setters, compose), opened on a collection that
\* is empty or holds one published frame
InitComposer ==
    /\ frames \in {NoData, 1 :> FrameData(1, 1)}
    /\ InitStore
    /\ InitPage

NextComposer ==
    \/ \E l \in Loads : LoadTargetImage(l)
    \/ \E l \in Loads : LoadTargetFetched(l)
    \/ \E l \in Loads : LoadTargetFetchFailed(l)
    \/ \E l \in Loads : FrameOnload(l)
    \/ \E l \in Loads : FrameOnerror(l)
    \/ \E l \in Loads : DefaultFrameOnload(l)
    \/ \E l \in Loads : DefaultFrameOnerror(l)
    \/ \E l \in Loads : LoadTargetReturn(l)
    \/ \E size \in PhotoSizes : SetBackgroundImage(size)
    \/ \E zoom \in ZoomValues : SetZoom(zoom)
    \/ \E x \in PanValues : SetXPosition(x)
    \/ \E y \in PanValues : SetYPosition(y)
    \/ Reset
    \/ ProcessImages
    \/ ProcessImagesLoaded
    \/ ProcessImagesFrameWaited
    \/ ProcessImagesDraw
    \/ ProcessImagesReturn

SpecComposer == InitComposer /\ [][NextComposer]_vars

\* a step of ProcessImagesDraw, told by the position it leaves and the one it reaches
ProcessImagesDrawn == ppc = "waitBackground" /\ ppc' \in {"done", "failed"}

\* what the event loop is bound to run once it is enabled: the reply of the store to
\* the get of line 22 of a compose's own frame load, the continuation of
\* processImages after that load (lines 411-432), and the ends of the two readiness
\* waits, which a timer bounds (lines 348-357, 363-373). The load and error events of
\* an image being decoded (lines 28-37, 81-91) have no timer and may never come.
ComposerFairness ==
    /\ WF_vars(LoadTargetFetched("compose") \/ LoadTargetFetchFailed("compose"))
    /\ WF_vars(ProcessImagesLoaded)
    /\ WF_vars(ProcessImagesFrameWaited)
    /\ WF_ppc(ProcessImagesDrawn)

\* the photobooth page: frame loads, photographs set, compose
NextComposerFair ==
    \/ \E l \in Loads : LoadTargetImage(l)
    \/ \E l \in Loads : LoadTargetFetched(l)
    \/ \E l \in Loads : LoadTargetFetchFailed(l)
    \/ \E l \in Loads : FrameOnload(l)
    \/ \E l \in Loads : FrameOnerror(l)
    \/ \E l \in Loads : DefaultFrameOnload(l)
    \/ \E l \in Loads : DefaultFrameOnerror(l)
    \/ \E l \in Loads : LoadTargetReturn(l)
    \/ \E size \in PhotoSizes : SetBackgroundImage(size)
    \/ ProcessImages
    \/ ProcessImagesLoaded
    \/ ProcessImagesFrameWaited
    \/ ProcessImagesDraw
    \/ ProcessImagesReturn

SpecComposerFair == InitComposer /\ [][NextComposerFair]_vars /\ ComposerFairness

\* the composer at step 2: the frame is loaded, a photograph is set, the sliders
\* have been moved; the composite is created
InitCompose ==
    /\ frames = NoData
    /\ InitStore
    /\ lpc = [l \in Loads |-> "idle"]
    /\ limg = [l \in Loads |-> Null]
    /\ lres = [l \in Loads |-> "none"]
    /\ targetImage = DefaultImage(TRUE)
    /\ \E size \in ComposeSizes :
          backgroundImage = [kind |-> "photo", src |-> Null,
                             width |-> size[1], height |-> size[2]]
    /\ InitNewest
    /\ zoomLevel \in ComposeZooms
    /\ xPosition \in ComposePans
    /\ yPosition \in ComposePans
    /\ ppc = "idle"
    /\ targetReady = "unset"
    /\ backgroundReady = "unset"
    /\ perr = "none"
    /\ out = NoOutput
    /\ currentStep = 2
    /\ canvas = BlankCanvas
    /\ AppInitialized
    /\ cpc = "idle"
    /\ cimg = <<0, 0>>
    /\ cerr = "none"
    /\ InitFile
    /\ InitSide

NextCompose ==
    \/ ProcessImages
    \/ ProcessImagesFrameWaited
    \/ ProcessImagesDraw
    \/ ProcessImagesReturn

SpecCompose == InitCompose /\ [][NextCompose]_vars

\* the photobooth page after initialize(): the frame or the placeholder is loaded,
\* step 1 is shown; photographs are captured, adjusted and composed
InitBooth ==
    /\ frames = NoData
    /\ InitStore
    /\ lpc = [l \in Loads |-> "idle"]
    /\ limg = [l \in Loads |-> Null]
    /\ lres = [l \in Loads |-> "none"]
    /\ targetImage \in {DefaultImage(TRUE), FrameImage(1)}
    /\ backgroundImage = NoImage
    /\ InitNewest
    /\ zoomLevel = 100
    /\ xPosition = 0
    /\ yPosition = 0
    /\ ppc = "idle"
    /\ targetReady = "unset"
    /\ backgroundReady = "unset"
    /\ perr = "none"
    /\ out = NoOutput
    /\ currentStep = 1
    /\ canvas = BlankCanvas
    /\ AppInitialized
    /\ cpc = "idle"
    /\ cimg = <<0, 0>>
    /\ cerr = "none"
    /\ InitFile
    /\ InitSide

NextBooth ==
    \/ \E videoSize \in VideoSizes : CapturePhoto(videoSize)
    \/ CaptureOnload
    \/ CaptureOnerror
    \/ \E value \in ZoomSliderValues : ZoomSliderInput(value)
    \/ \E value \in PanSliderValues : XSliderInput(value)
    \/ \E value \in PanSliderValues : YSliderInput(value)
    \/ RetakePhoto
    \/ ProcessImagesClick
    \/ ProcessImagesFrameWaited
    \/ ProcessImagesDraw
    \/ ProcessImagesReturn
    \/ BackToControls
    \/ StartOver

SpecBooth == InitBooth /\ [][NextBooth]_vars

\* the photobooth page with the save button: photographs are captured, adjusted
\* (each slider between its default and one other value), composed and saved
SavedZoomValues == {<<"1", "0", "0">>, <<"1", "2", "0">>}
SavedXValues == {<<"0">>, <<"5", "0">>}
SavedYValues == {<<"0">>, <<"-", "3", "0">>}

InitSave ==
    /\ InitBooth
    /\ targetImage = DefaultImage(TRUE)

NextSave ==
    \/ CapturePhoto(<<1920, 1080>>)
    \/ CaptureOnload
    \/ \E value \in SavedZoomValues : ZoomSliderInput(value)
    \/ \E value \in SavedXValues : XSliderInput(value)
    \/ \E value \in SavedYValues : YSliderInput(value)
    \/ ProcessImagesClick
    \/ ProcessImagesFrameWaited
    \/ ProcessImagesDraw
    \/ ProcessImagesReturn
    \/ BackToControls
    \/ StartOver
    \/ AppSaveImage
    \/ SaveImagePushed
    \/ SaveImageFailed

SpecSave == InitSave /\ [][NextSave]_vars

\* the gallery page: booth pages save composites, images are deleted by id, the
\* subscription of loadImages delivers the collection
ImageIds == 1..MaxSaves
GalleryMetadata ==
    {[resolution |-> Resolution(FinalWidth, FinalHeight),
      settings |-> [zoom |-> zoom, xPosition |-> 0, yPosition |-> 0]] : zoom \in {100, 120}}

NextGallery ==
    \/ \E metadata \in GalleryMetadata : BoothSaveImage(saves + 1, metadata)
    \/ SaveImagePushed
    \/ SaveImageFailed
    \/ \E imageId \in ImageIds : DeleteImage(imageId)
    \/ DeleteImageRemoved
    \/ DeleteImageFailed
    \/ LoadImagesSnapshot
    \/ LoadImagesError

SpecGallery == Init /\ [][NextGallery]_vars

\* the photobooth page on step 1 after initialize() returned: the camera buttons,
\* the page being hidden and shown, and the frame reloads a shown page starts
InitCamera ==
    /\ frames \in {NoData, 1 :> FrameData(1, 1)}
    /\ InitStore
    /\ lpc = [l \in Loads |-> "idle"]
    /\ limg = [l \in Loads |-> Null]
    /\ lres = [l \in Loads |-> "none"]
    /\ targetImage = (IF LoadActiveFrameImage(frames) = Null
                         THEN DefaultImage(TRUE)
                         ELSE FrameImage(LoadActiveFrameImage(frames)))
    /\ backgroundImage = NoImage
    /\ InitNewest
    /\ zoomLevel = 100
    /\ xPosition = 0
    /\ yPosition = 0
    /\ ppc = "idle"
    /\ targetReady = "unset"
    /\ backgroundReady = "unset"
    /\ perr = "none"
    /\ out = NoOutput
    /\ currentStep = 1
    /\ canvas = BlankCanvas
    /\ AppInitialized
    /\ cpc = "idle"
    /\ cimg = <<0, 0>>
    /\ cerr = "none"
    /\ InitFile
    /\ InitData
    /\ \E granted \in BOOLEAN : CameraInitialized(granted)

NextCamera ==
    \/ AppStartCamera
    \/ AppStopCamera
    \/ SwitchToNextCamera
    \/ \E index \in {0, 1} : SwitchCamera(index)
    \/ \E request \in requests : GetUserMediaResolved(request)
    \/ \E request \in requests : GetUserMediaRejected(request)
    \/ HandleVisibilityChange
    \/ LoadTargetFetched("visible")
    \/ LoadTargetFetchFailed("visible")
    \/ FrameOnload("visible")
    \/ FrameOnerror("visible")
    \/ DefaultFrameOnload("visible")
    \/ DefaultFrameOnerror("visible")
    \/ LoadTargetReturn("visible")

SpecCamera == InitCamera /\ [][NextCamera]_vars

\* the photobooth page from DOMContentLoaded on: initialize, then pictures chosen
\* from files on step 1; the page stays visible
InitInitialize ==
    /\ frames \in {NoData, 1 :> FrameData(1, 1)}
    /\ InitStore
    /\ lpc = [l \in Loads |-> "idle"]
    /\ limg = [l \in Loads |-> Null]
    /\ lres = [l \in Loads |-> "none"]
    /\ targetImage = NoImage
    /\ backgroundImage = NoImage
    /\ InitNewest
    /\ zoomLevel = 100
    /\ xPosition = 0
    /\ yPosition = 0
    /\ ppc = "idle"
    /\ targetReady = "unset"
    /\ backgroundReady = "unset"
    /\ perr = "none"
    /\ out = NoOutput
    /\ currentStep = 1
    /\ canvas = BlankCanvas
    /\ AppNew
    /\ cpc = "idle"
    /\ cimg = <<0, 0>>
    /\ cerr = "none"
    /\ InitFile
    /\ InitData
    /\ CameraNew

NextInitialize ==
    \/ InitializeApp
    \/ FirebaseInitialized
    \/ FirebaseFailed
    \/ InitializeFailedAlert
    \/ LoadTargetFetched("page")
    \/ LoadTargetFetchFailed("page")
    \/ FrameOnload("page")
    \/ FrameOnerror("page")
    \/ DefaultFrameOnload("page")
    \/ DefaultFrameOnerror("page")
    \/ InitializeFrameLoaded
    \/ \E request \in requests, granted \in BOOLEAN : InitializeCameraSettled(request, granted)
    \/ \E files \in FileLists : SectionShown /\ HandleFileSelect(files)
    \/ FileReaderOnload
    \/ FileReaderOnerror
    \/ FileImageOnload
    \/ FileImageOnerror

SpecInitialize == InitInitialize /\ [][NextInitialize]_vars

\* the photobooth page on step 1 after initialize() returned with the given frame
InitBoothPage(image) ==
    /\ frames = NoData
    /\ InitStore
    /\ lpc = [l \in Loads |-> "idle"]
    /\ limg = [l \in Loads |-> Null]
    /\ lres = [l \in Loads |-> "none"]
    /\ targetImage = image
    /\ backgroundImage = NoImage
    /\ InitNewest
    /\ zoomLevel = 100
    /\ xPosition = 0
    /\ yPosition = 0
    /\ ppc = "idle"
    /\ targetReady = "unset"
    /\ backgroundReady = "unset"
    /\ perr = "none"
    /\ out = NoOutput
    /\ currentStep = 1
    /\ canvas = BlankCanvas
    /\ AppInitialized
    /\ cpc = "idle"
    /\ cimg = <<0, 0>>
    /\ cerr = "none"
    /\ InitFile
    /\ InitSide

\* the photobooth page whose frame is the placeholder, loaded or failed (lines 81-91
\* of image-processor.js): captures, files, the controls and compose
InitRetry == \E loaded \in BOOLEAN : InitBoothPage(DefaultImage(loaded))

NextRetry ==
    \/ CapturePhoto(<<1920, 1080>>)
    \/ CaptureOnload
    \/ \E files \in {<<f>> : f \in Files} : HandleFileSelect(files)
    \/ FileReaderOnload
    \/ FileReaderOnerror
    \/ FileImageOnload
    \/ FileImageOnerror
    \/ \E value \in SavedZoomValues : ZoomSliderInput(value)
    \/ RetakePhoto
    \/ ProcessImagesClick
    \/ ProcessImagesFrameWaited
    \/ ProcessImagesDraw
    \/ ProcessImagesReturn
    \/ BackToControls
    \/ StartOver

SpecRetry == InitRetry /\ [][NextRetry]_vars

\* metadata objects passed to DataManager.saveImage (data-manager.js line 37): the
\* one AppController builds, none, one with an extra field, and ones that name
\* fields saveImage derives itself
CallerMetadata ==
    <<[resolution |-> Resolution(FinalWidth, FinalHeight),
       settings |-> [zoom |-> 120, xPosition |-> 50, yPosition |-> -30]],
      [key \in {} |-> Null],
      [event |-> "wedding"],
      [type |-> "image/jpeg"],
      [quality |-> "low", resolution |-> Resolution(600, 900)],
      [imageData |-> Null, event |-> "wedding"]>>

\* a page saving rasters 1, 2, ... with the caller's metadata
NextSaveImage ==
    \/ \E i \in DOMAIN CallerMetadata : BoothSaveImage(saves + 1, CallerMetadata[i])
    \/ SaveImagePushed
    \/ SaveImageFailed

SpecSaveImage == Init /\ [][NextSaveImage]_vars

\* the photobooth page on step 1 after initialize() returned with the one frame
\* published so far (the upload page's later attempts failed before writing), while
\* the upload page publishes once more: the window gets
\* the focus, the page is hidden and shown, photographs are captured and retaken
InitReload ==
    /\ frames = 1 :> FrameData(1, 1)
    /\ now = 1
    /\ nextKey = 2
    /\ started = MaxPublishes - 1
    /\ pc = [c \in Clients |-> "idle"]
    /\ snap = [c \in Clients |-> NoData]
    /\ newKey = [c \in Clients |-> NoKey]
    /\ raster = [c \in Clients |-> Null]
    /\ dirty = [c \in Clients |-> FALSE]
    /\ prevDone = [c \in Clients |-> NoKey]
    /\ lastDone = 1
    /\ overlapped = FALSE
    /\ sub = [kind |-> "none", data |-> NoData, value |-> Null, calls |-> << >>]
    /\ rd = [kind |-> "none", data |-> NoData, value |-> Null]
    /\ lpc = [l \in Loads |-> "idle"]
    /\ limg = [l \in Loads |-> Null]
    /\ lres = [l \in Loads |-> "none"]
    /\ targetImage = FrameImage(1)
    /\ backgroundImage = NoImage
    /\ InitNewest
    /\ zoomLevel = 100
    /\ xPosition = 0
    /\ yPosition = 0
    /\ ppc = "idle"
    /\ targetReady = "unset"
    /\ backgroundReady = "unset"
    /\ perr = "none"
    /\ out = NoOutput
    /\ currentStep = 1
    /\ canvas = BlankCanvas
    /\ AppInitialized
    /\ cpc = "idle"
    /\ cimg = <<0, 0>>
    /\ cerr = "none"
    /\ InitFile
    /\ InitData
    /\ CameraInitialized(TRUE)

NextReload ==
    \/ SaveFrameGet("c1")
    \/ SaveFrameUpdate("c1")
    \/ SaveFramePush("c1")
    \/ SaveFramePushed("c1")
    \/ SaveFrameFail("c1")
    \/ SaveFrameReturn("c1")
    \/ WindowFocus
    \/ HandleVisibilityChange
    \/ \E l \in {"focus", "visible"} : LoadTargetFetched(l)
    \/ \E l \in {"focus", "visible"} : LoadTargetFetchFailed(l)
    \/ \E l \in {"focus", "visible"} : FrameOnload(l)
    \/ \E l \in {"focus", "visible"} : FrameOnerror(l)
    \/ \E l \in {"focus", "visible"} : DefaultFrameOnload(l)
    \/ \E l \in {"focus", "visible"} : DefaultFrameOnerror(l)
    \/ \E l \in {"focus", "visible"} : LoadTargetReturn(l)
    \/ CapturePhoto(<<1920, 1080>>)
    \/ CaptureOnload
    \/ RetakePhoto

SpecReload == InitReload /\ [][NextReload]_vars

\* the photobooth page with pictures chosen from files or dropped, and captures
NextUpload ==
    \/ \E files \in FileLists : HandleFileSelect(files)
    \/ FileReaderOnload
    \/ FileReaderOnerror
    \/ FileImageOnload
    \/ FileImageOnerror
    \/ \E videoSize \in VideoSizes : CapturePhoto(videoSize)
    \/ CaptureOnload
    \/ CaptureOnerror
    \/ RetakePhoto

SpecUpload == InitBooth /\ [][NextUpload]_vars

(* ---------------- properties of the frame store ---------------- *)
ActiveRasters(data) == {data[k].imageData : k \in ActiveKeys(data)}
NewestRasters(data) == {data[k].imageData : k \in NewestKeys(data)}

\* the read recorded in rd fetched a snapshot and the collection has not changed since
ReadIsCurrent == rd.kind = "value" /\ rd.data = frames

\* C1: when a publish completes and no other writer's write landed since it read the
\* collection, exactly one record is active, and it is the record the publish inserted.
C1_PublishLeavesNewRecordActive ==
    \A c \in Clients : (pc[c] = "done" /\ ~dirty[c]) => ActiveKeys(frames) = {newKey[c]}

\* a publish completed undisturbed on a collection that had two active records
C1_Witness ==
    \E c \in Clients : /\ pc[c] = "done" /\ ~dirty[c]
                       /\ Cardinality(ActiveKeys(snap[c])) = 2
                       /\ ActiveKeys(frames) = {newKey[c]}

\* C2 (as stated): in every reachable state at most one record is active.
C2_AtMostOneActive == Cardinality(ActiveKeys(frames)) <= 1

\* C2 (amended): as long as no publish has started while another was in progress,
\* at most one record is active, also in the states inside a publish.
C2_AtMostOneActiveWithoutOverlap ==
    ~overlapped => Cardinality(ActiveKeys(frames)) <= 1

\* a second publish, not overlapping the first, has deactivated and inserted
C2_Witness ==
    /\ ~overlapped
    /\ Cardinality(Keys(frames)) = 2
    /\ Cardinality(ActiveKeys(frames)) = 1
    /\ \E c \in Clients : pc[c] = "done" /\ snap[c] # NoData

\* C3: loadActiveFrameImage returns null for an empty collection, the raster of an
\* active record when there is one, and otherwise the raster of a record with the
\* maximum uploadedAt.
C3_SelectionRule ==
    rd.kind = "value" =>
        /\ rd.data = NoData => rd.value = Null
        /\ (rd.data # NoData /\ ActiveKeys(rd.data) # {}) => rd.value \in ActiveRasters(rd.data)
        /\ (rd.data # NoData /\ ActiveKeys(rd.data) = {}) => rd.value \in NewestRasters(rd.data)

\* a read fell back to the most recent of two inactive records
C3_Witness ==
    /\ rd.kind = "value"
    /\ Cardinality(Keys(rd.data)) = 2
    /\ ActiveKeys(rd.data) = {}
    /\ rd.value \in NewestRasters(rd.data)
    /\ \E k \in Keys(rd.data) : k \notin NewestKeys(rd.data)

\* C4: when B is published after A's publish completed and nothing else wrote during
\* B's publish, a read after B's completion returns B's raster and sees A inactive.
C4_SecondPublishReplacesFirst ==
    \A c \in Clients :
        (pc[c] = "done" /\ ~dirty[c] /\ prevDone[c] # NoKey /\ ReadIsCurrent) =>
            /\ rd.value = raster[c]
            /\ rd.data[prevDone[c]].active = FALSE

\* A was active when B's publish read the collection, and the read came after B
C4_Witness ==
    \E c \in Clients :
        /\ pc[c] = "done" /\ ~dirty[c] /\ prevDone[c] # NoKey /\ ReadIsCurrent
        /\ snap[c][prevDone[c]].active = TRUE
        /\ rd.value = raster[c]

\* C5 (as stated): once the publishes of both clients have completed, a read returns
\* the raster of a record with the greatest uploadedAt.
C5_ConvergesOnMostRecent ==
    ((\A c \in Clients : pc[c] = "done") /\ ReadIsCurrent) =>
        rd.value \in NewestRasters(rd.data)

\* exactly one publish is or was just running on the collection it read
Solo(c) ==
    /\ pc[c] # "idle"
    /\ ~dirty[c]
    /\ \A d \in Clients \ {c} : ~InPublish(d)

\* the collection has an active record that is strictly more recent than every other
ActiveIsMostRecent(data) ==
    /\ data # NoData
    /\ \E k \in ActiveKeys(data) :
          \A j \in Keys(data) \ {k} : data[j].uploadedAt < data[k].uploadedAt

\* C6: a read at any point of a single publish (before or after its deactivate-all,
\* after its insert, or after its update or insert failed), on a collection whose
\* active record was its most recent, returns a previously active raster or the new
\* one, never null.
C6_ReadDuringPublish ==
    \A c \in Clients :
        (Solo(c) /\ ActiveIsMostRecent(snap[c]) /\ ReadIsCurrent) =>
            /\ rd.value \in ActiveRasters(snap[c]) \cup {raster[c]}
            /\ rd.value # Null

\* the read happened between the deactivate-all and the insert, two records stored
C6_Witness ==
    \E c \in Clients :
        /\ Solo(c) /\ ActiveIsMostRecent(snap[c]) /\ ReadIsCurrent
        /\ pc[c] \in {"push", "pushing", "failed"}
        /\ Cardinality(Keys(rd.data)) = 2
        /\ ActiveKeys(rd.data) = {}
        /\ rd.value \in ActiveRasters(snap[c])

\* C7: for every snapshot delivered to the subscription, the callback receives what
\* loadActiveFrameImage returns for that snapshot.
C7_PreviewAgreesWithLoad ==
    sub.kind = "snapshot" => sub.value = LoadActiveFrameImage(sub.data)

\* a delivered snapshot held two active records with different rasters
C7_Witness ==
    /\ sub.kind = "snapshot"
    /\ Cardinality(ActiveKeys(sub.data)) = 2
    /\ Cardinality(ActiveRasters(sub.data)) = 2
    /\ sub.value # Null

(* ---------------- properties of the composer ---------------- *)
\* C8: processImages called with no background image fails with the missing-background
\* error, returns no raster and leaves targetImage, zoom, xPosition, yPosition unchanged.
C8_MissingBackgroundRejected ==
    [][(ppc = "idle" /\ ppc' # "idle" /\ backgroundImage = NoImage) =>
          /\ ppc' = "failed"
          /\ perr' = "MissingBackground"
          /\ out' = NoOutput
          /\ targetImage' = targetImage
          /\ zoomLevel' = zoomLevel
          /\ xPosition' = xPosition
          /\ yPosition' = yPosition]_vars

\* the call was rejected while a frame was loaded and the zoom was not the default
C8_Witness ==
    /\ ppc = "failed"
    /\ perr = "MissingBackground"
    /\ backgroundImage = NoImage
    /\ targetImage # NoImage
    /\ zoomLevel # 100

\* C9: a raster is returned only if both images drawn had non-zero width and height;
\* when a wait reported an image as not loaded, the call fails with the frame or
\* background readiness error and nothing is drawn.
C9_DrawsOnlyReadyImages ==
    /\ out # NoOutput =>
          /\ ppc = "done"
          /\ out.frame.width > 0 /\ out.frame.height > 0
          /\ out.background.width > 0 /\ out.background.height > 0
    /\ (ppc \in {"done", "failed"} /\ (targetReady = "false" \/ backgroundReady = "false")) =>
          /\ ppc = "failed"
          /\ perr \in {"FrameNotReady", "BackgroundNotReady"}
          /\ out = NoOutput

\* the frame was reported loaded, was replaced by a placeholder that failed to decode
\* during the waits, and the call failed instead of drawing it
C9_Witness ==
    /\ ppc = "failed"
    /\ perr = "FrameNotReady"
    /\ targetReady = "true"
    /\ backgroundReady = "true"
    /\ targetImage.width = 0
    /\ out = NoOutput

SameAspect == out.background.width * FinalHeight = out.background.height * FinalWidth

\* the offsets compose computes for the photograph and zoom of out at pan x, y
PlacedAt(x, y) ==
    BackgroundPlacement(out.background.width, out.background.height,
                        FinalWidth, FinalHeight, out.zoom, x, y)

\* C11: for zoom >= 100 and pan within [-100,100] the rectangle at which the background
\* is drawn covers the whole canvas: offsetX <= 0, offsetY <= 0, offsetX + scaledWidth
\* >= canvasWidth and offsetY + scaledHeight >= canvasHeight.
C11_BackgroundCoversCanvas ==
    (/\ out # NoOutput
     /\ out.zoom >= 100
     /\ out.xPosition >= -100 /\ out.xPosition <= 100
     /\ out.yPosition >= -100 /\ out.yPosition <= 100) =>
        /\ RatLE(out.drawn.offsetX, RatOf(0))
        /\ RatLE(out.drawn.offsetY, RatOf(0))
        /\ RatLE(RatOf(out.width), RatAdd(out.drawn.offsetX, out.drawn.scaledWidth))
        /\ RatLE(RatOf(out.height), RatAdd(out.drawn.offsetY, out.drawn.scaledHeight))

\* a zoomed landscape photograph panned fully to one side: its edge meets the canvas edge
C11_Witness ==
    /\ out # NoOutput
    /\ out.zoom = 150
    /\ out.xPosition = 100
    /\ out.background.width > out.background.height
    /\ out.drawn.offsetX = RatOf(0)
    /\ out.drawn.scaledWidth # RatOf(out.width)

\* C12 as stated: for every zoom >= 100 and a background of the canvas's aspect ratio,
\* the computed offsetX is the same for every xPosition and offsetY for every yPosition.
C12_PanIsNoOpAtAnyZoom ==
    (out # NoOutput /\ out.zoom >= 100 /\ SameAspect) =>
        \A p \in ComposePans :
            /\ PlacedAt(p, out.yPosition).offsetX = out.drawn.offsetX
            /\ PlacedAt(out.xPosition, p).offsetY = out.drawn.offsetY

\* C12 amended: for zoom <= 100 (the photograph does not overflow the canvas) and a
\* background of the canvas's aspect ratio, the computed offsetX is the same for every
\* xPosition and offsetY for every yPosition.
C12_PanIsNoOpWithoutOverflow ==
    (out # NoOutput /\ out.zoom <= 100 /\ SameAspect) =>
        \A p \in ComposePans :
            /\ PlacedAt(p, out.yPosition).offsetX = out.drawn.offsetX
            /\ PlacedAt(out.xPosition, p).offsetY = out.drawn.offsetY

\* a photograph of the canvas's aspect ratio composed at zoom 100 with both sliders at
\* an end: it is drawn exactly over the canvas
C12_Witness ==
    /\ out # NoOutput
    /\ SameAspect
    /\ out.zoom = 100
    /\ out.xPosition = 100
    /\ out.yPosition = -100
    /\ out.background.width # out.width
    /\ out.drawn.offsetX = RatOf(0)
    /\ out.drawn.offsetY = RatOf(0)

\* C13: with zoom 100 and pan 0, 0 the background is centered under cover fit:
\* scaledWidth and scaledHeight are the background's dimensions times
\* max(canvasWidth/bgWidth, canvasHeight/bgHeight), offsetX = (canvasWidth - scaledWidth)/2
\* and offsetY = (canvasHeight - scaledHeight)/2.
C13_CenteredCoverFit ==
    (out # NoOutput /\ out.zoom = 100 /\ out.xPosition = 0 /\ out.yPosition = 0) =>
        LET bgWidth == out.background.width
            bgHeight == out.background.height
            \* canvasWidth/bgWidth >= canvasHeight/bgHeight
            widthBound == out.width * bgHeight >= out.height * bgWidth
            coverWidth == IF widthBound THEN <<out.width, 1>>
                          ELSE Rat(bgWidth * out.height, bgHeight)
            coverHeight == IF widthBound THEN Rat(bgHeight * out.width, bgWidth)
                           ELSE <<out.height, 1>>
        IN /\ out.drawn.scaledWidth = coverWidth
           /\ out.drawn.scaledHeight = coverHeight
           /\ RatAdd(out.drawn.offsetX, out.drawn.offsetX) = RatSub(RatOf(out.width), coverWidth)
           /\ RatAdd(out.drawn.offsetY, out.drawn.offsetY) = RatSub(RatOf(out.height), coverHeight)

\* a 1920x1080 photograph at the defaults: scaled to 3200x1800 and drawn at (-1000, 0)
C13_Witness ==
    /\ out # NoOutput
    /\ out.zoom = 100 /\ out.xPosition = 0 /\ out.yPosition = 0
    /\ out.background.width = 1920 /\ out.background.height = 1080
    /\ out.drawn.scaledWidth = RatOf(3200)
    /\ out.drawn.offsetX = RatOf(-1000)
    /\ out.drawn.offsetY = RatOf(0)

(* ---------------- properties of the steps ---------------- *)
\* C14: reset(), and the retake and start-over actions that call it, set zoom to 100,
\* xPosition and yPosition to 0 and the background image to none, and leave the frame
\* image unchanged.
C14_ResetKeepsFrame ==
    [][(currentStep # 1 /\ currentStep' = 1) =>
          /\ zoomLevel' = 100
          /\ xPosition' = 0
          /\ yPosition' = 0
          /\ backgroundImage' = NoImage
          /\ targetImage' = targetImage]_vars

\* a photograph was composed at a zoom other than the default under a stored frame,
\* then the flow was started over
C14_Witness ==
    /\ currentStep = 1
    /\ canvas # BlankCanvas
    /\ canvas.zoom # 100
    /\ canvas.xPosition # 0
    /\ zoomLevel = 100
    /\ xPosition = 0
    /\ backgroundImage = NoImage
    /\ targetImage.kind = "frame"

C20_CaptureNotReady ==
    [][(/\ cpc = "idle"
        /\ cimg'[1] = 0 \/ cimg'[2] = 0
        /\ <<cpc, cimg, cerr>> # <<cpc', cimg', cerr'>>) =>
          /\ cerr' = "CameraNotReady"
          /\ cpc' = "idle"
          /\ backgroundImage' = backgroundImage
          /\ currentStep' = currentStep]_vars

\* after a photograph was composed and the flow started over, capture was pressed
\* before the video had dimensions
C20_Witness ==
    /\ cerr = "CameraNotReady"
    /\ cimg = <<0, 0>>
    /\ cpc = "idle"
    /\ currentStep = 1
    /\ canvas # BlankCanvas
    /\ backgroundImage = NoImage

(* ---------------- properties of the saved images ---------------- *)
\* C16: a record stored by the save path has its resolution equal to the composed
\* canvas's "WxH" and its settings equal to the zoom, xPosition and yPosition with
\* which the saved raster was composed.
C16_SavedRecordDescribesRaster ==
    \A key \in DOMAIN images :
        LET record == images[key]
            saved == record.imageData
        IN /\ saved.kind = "raster"
           /\ record.resolution = <<saved.width, "x", saved.height>>
           /\ record.resolution = <<1200, "x", 1800>>
           /\ record.settings = [zoom |-> saved.zoom, xPosition |-> saved.xPosition,
                                 yPosition |-> saved.yPosition]

\* a raster composed at 120/50/-30 was saved, after the controls were revisited
C16_Witness ==
    \E key \in DOMAIN images :
        /\ images[key].settings = [zoom |-> 120, xPosition |-> 50, yPosition |-> -30]
        /\ images[key].imageData.zoom = 120
        /\ images[key].resolution = <<1200, "x", 1800>>
        /\ key = 2

\* C17: deleteImage(id) for an id that is not in the collection completes without
\* error and leaves the collection unchanged; for an existing id it removes exactly
\* that record and no other; deleting the same id twice has the same effect as once.
C17_DeleteRemovesExactlyOne ==
    [][(dpc = "removing" /\ dpc' = "idle") =>
          /\ dres' = "error" => images' = images
          /\ dres' = "ok" =>
                /\ DOMAIN images' = (DOMAIN images) \ {did}
                /\ \A key \in DOMAIN images' : images'[key] = images[key]
                /\ did \notin DOMAIN images => images' = images
                /\ Remove(images', did) = images']_vars

\* an image that the gallery still shows was deleted before: deleting it again
\* ends without error and the other image is still there
C17_Witness ==
    /\ dpc = "idle"
    /\ dres = "ok"
    /\ dhit = FALSE
    /\ gal.kind = "value"
    /\ did \in DOMAIN gal.data
    /\ did \notin DOMAIN images
    /\ images # NoData

\* C18: every list that loadImages delivers holds exactly the records of the
\* delivered snapshot, each with its id, and of two entries with different uploadedAt
\* the one with the greater uploadedAt comes first.
C18_ListIsSnapshotNewestFirst ==
    gal.kind = "value" =>
        /\ Len(gal.list) = Cardinality(DOMAIN gal.data)
        /\ \A key \in DOMAIN gal.data :
              \E i \in 1..Len(gal.list) :
                  /\ gal.list[i].id = key
                  /\ DOMAIN gal.list[i] = (DOMAIN gal.data[key]) \cup {"id"}
                  /\ \A f \in DOMAIN gal.data[key] : gal.list[i][f] = gal.data[key][f]
        /\ \A i, j \in 1..Len(gal.list) :
              (i < j /\ gal.list[i].uploadedAt # gal.list[j].uploadedAt) =>
                  gal.list[i].uploadedAt > gal.list[j].uploadedAt

\* two images saved at different times are delivered newest first, the reverse of
\* the order of their keys
C18_Witness ==
    /\ gal.kind = "value"
    /\ Len(gal.list) = 2
    /\ gal.list[1].id = 2
    /\ gal.list[2].id = 1
    /\ gal.list[1].uploadedAt > gal.list[2].uploadedAt

\* C19: at every point in time at most one camera stream acquired by the
\* application is live (not stopped), under any interleaving of startCamera,
\* switchToNextCamera, switchCamera, stopCamera and page-visibility changes, startCamera
\* calls that overlap while a stream request is pending included.
C19_AtMostOneLiveStream == Cardinality(live) <= 1

\* a type that starts with image/
ImageMime(type) ==
    /\ Len(type) >= 6
    /\ <<type[1], type[2], type[3], type[4], type[5], type[6]>> = <<"i", "m", "a", "g", "e", "/">>

\* a step of handleFileSelect's synchronous part
FileSelectionStep == fpc = "idle" /\ <<fsel, falert, fpc>>' # <<fsel, falert, fpc>>

NoImageMimeIn(files) == \A i \in 1..Len(files) : ~ImageMime(files[i].type)

\* only a file of an image type is read, decoded or held as the background
OnlyImageFilesLoaded ==
    /\ fpc # "idle" => ImageMime(ffile.type)
    /\ backgroundImage.src # Null =>
          \E file \in Files : file.id = backgroundImage.src /\ ImageMime(file.type)

\* C21 as stated: a selection or drop that contains no file of an image MIME type is
\* rejected with the message and leaves the background image and the step unchanged;
\* only a file of an image MIME type can become the background image.
C21_NoImageSelectionIsRejected ==
    /\ []OnlyImageFilesLoaded
    /\ [][(FileSelectionStep /\ NoImageMimeIn(fsel')) =>
             /\ falert' = "Please select an image file."
             /\ fpc' = "idle"
             /\ backgroundImage' = backgroundImage
             /\ currentStep' = currentStep]_vars

\* C21 (amended): a selection or drop of at least one file, none of an image MIME type,
\* is rejected with the message; an empty one is passed over without a message; both
\* leave the background image and the step unchanged; only a file of an image MIME
\* type can become the background image.
C21_NoImageFileIsRejected ==
    /\ []OnlyImageFilesLoaded
    /\ [][(FileSelectionStep /\ NoImageMimeIn(fsel')) =>
             /\ fsel' # << >> => falert' = "Please select an image file."
             /\ fsel' = << >> => falert' = "none"
             /\ fpc' = "idle"
             /\ backgroundImage' = backgroundImage
             /\ currentStep' = currentStep]_vars

\* a picture whose file has no type was selected and rejected on step 1
C21_Witness ==
    /\ falert = "Please select an image file."
    /\ fsel # << >>
    /\ fsel[1].id = 4
    /\ fpc = "idle"
    /\ currentStep = 1
    /\ backgroundImage = NoImage

\* C22: when compose fails because the background or the frame is missing, the user is
\* returned to the capture step: the controller's current step becomes step 1.
C22_FailedComposeReturnsToCapture ==
    [][(ppc = "failed" /\ ppc' = "idle" /\ perr \in {"MissingBackground", "FrameNotReady"})
          => currentStep' = 1]_vars

C24_OneCallbackPerDelivery ==
    /\ sub.kind = "error" => sub.calls = <<Null>>
    /\ sub.kind = "snapshot" => sub.calls = <<LoadActiveFrameImage(sub.data)>>
    /\ sub.kind = "none" => sub.calls = << >>

\* the subscription failed while the collection holds an active frame: the callback
\* was called once, with null
C24_Witness ==
    /\ sub.kind = "error"
    /\ Len(sub.calls) = 1
    /\ sub.calls[1] = Null
    /\ ActiveKeys(frames) # {}

\* twice the offset is the canvas size less the scaled size
Centered(offset, canvasSize, scaledSize) ==
    RatAdd(offset, offset) = RatSub(RatOf(canvasSize), scaledSize)

\* C25: in compose, whenever the scaled background does not overflow the canvas on an
\* axis, the offset on that axis is the centered base offset for every pan value; the
\* pan value changes the offset on an axis only when the scaled dimension exceeds the
\* canvas dimension.
C25_PanNeedsOverflow ==
    out # NoOutput =>
        /\ RatLE(out.drawn.scaledWidth, RatOf(out.width)) =>
              \A p \in ComposePans :
                  Centered(PlacedAt(p, out.yPosition).offsetX, out.width, out.drawn.scaledWidth)
        /\ RatLE(out.drawn.scaledHeight, RatOf(out.height)) =>
              \A p \in ComposePans :
                  Centered(PlacedAt(out.xPosition, p).offsetY, out.height, out.drawn.scaledHeight)
        /\ \A p, q \in ComposePans :
              /\ PlacedAt(p, out.yPosition).offsetX # PlacedAt(q, out.yPosition).offsetX
                    => ~RatLE(out.drawn.scaledWidth, RatOf(out.width))
              /\ PlacedAt(out.xPosition, p).offsetY # PlacedAt(out.xPosition, q).offsetY
                    => ~RatLE(out.drawn.scaledHeight, RatOf(out.height))

\* a landscape photograph at zoom 100 with both sliders at an end: it overflows the
\* canvas in width only, is moved sideways and stays centered in height
C25_Witness ==
    /\ out # NoOutput
    /\ out.zoom = 100
    /\ out.xPosition = 100
    /\ out.yPosition = -100
    /\ out.background.width > out.background.height
    /\ out.drawn.scaledHeight = RatOf(out.height)
    /\ out.drawn.offsetY = RatOf(0)
    /\ ~Centered(out.drawn.offsetX, out.width, out.drawn.scaledWidth)

\* processImages was called with a background image set and has not completed
ProcessImagesPending == ppc \in {"loading", "waitTarget", "waitBackground"}

\* C26: every processImages call made with a background image set eventually
\* completes, returning an output raster or failing with an error, even if an image's
\* load or error event never fires and even if the frame has to be loaded first.
C26_ProcessImagesCompletes == ProcessImagesPending ~> ppc \in {"done", "failed"}

\* C27: targetImage is replaced only while the wizard is at step 1: once the user is
\* at step 2 or 3, no frame reload triggered by window focus or page visibility
\* changes targetImage, including reloads started at step 1 that finish later.
C27_FrameReplacedOnlyAtStepOne ==
    [][(currentStep # 1) => (targetImage' = targetImage)]_vars

\* C28: when several loadTargetImage calls overlap, once all of them have completed
\* targetImage holds the frame assigned by the most recently started call: a load
\* that started earlier and finishes later never overwrites the result of a newer one.
C28_NewestLoadWins ==
    (newest.done /\ \A l \in Loads : lpc[l] \in {"idle", "done"}) => targetImage = newest.image

\* C29: whenever cameraManager.stream is non-null, that stream's tracks have not been
\* stopped by the application; in particular after a startCamera call that failed to
\* acquire a device no request is pending and stream is null, so isReady() is false.
C29_HeldStreamIsLive == stream # NoStream => stream \in live

\* C30: in every record written by saveImage the derived fields (imageData,
\* uploadedAt, type and quality among them) hold the values computed by saveImage from
\* the raster and the clock, whatever keys the caller-supplied metadata contains.
C30_DerivedFieldsAreComputed ==
    \A key \in DOMAIN images :
        /\ images[key].imageData = key
        /\ images[key].uploadedAt \in 1..now
        /\ images[key].type = "image/png"
        /\ images[key].quality = "high"

====
